---- MODULE Spec2Model ----
(***************************************************************************)
(* Trust and memory-lifecycle engine of the trace server.                  *)
(*                                                                         *)
(* The relational store is PostgreSQL at its default isolation level       *)
(* (READ COMMITTED): every statement of a transaction reads the latest     *)
(* committed rows plus the transaction's own writes, an UPDATE or an       *)
(* upsert takes the row's lock and keeps it until the transaction ends,    *)
(* and an INSERT into a unique index waits for an uncommitted insert of    *)
(* the same key.  A transaction's writes are kept in overlays (otrace,     *)
(* ocdr, ouser, inserted) that Commit copies into the committed tables     *)
(* and a rollback drops; a row is locked by the transaction whose overlay  *)
(* holds it.                                                               *)
(*                                                                         *)
(* Numbers: scores and weights are floats in the code.  Here a weight or   *)
(* a Wilson score is an integer number of thousandths, and a trust score   *)
(* an integer number of 1/(1000 * TrustUnit), TrustUnit a power of 4, so   *)
(* that the decay factors 3/4 and 1/2 are exact.                           *)
(*                                                                         *)
(* The bucket store is Redis: a script runs atomically, one script after   *)
(* another, and a key past its TTL is not seen.  Timestamps are whole      *)
(* seconds and a bucket holds an integer number of 1/TokenUnit tokens, so  *)
(* that elapsed * refill_rate is exact.  The two capacities are settings;  *)
(* they are set low here so that a handful of calls empties a bucket.      *)
(***************************************************************************)
EXTENDS Integers, Sequences, FiniteSets, TLC

\* ------------------------------------------------------------------ bounds
MaxRequests == 3
MaxSessions == 2
MaxCycles == 1
MaxRuns == 2
MaxRowCount == 1
MaxWorkers == 2
MaxBatches == 2
BATCH_SIZE == 2
MaxTotal == 15
MaxK == 6
MaxSchedulers == 2
MaxTicksOfLoop == 4
WarmupSeconds == 60
consolidation_interval_hours == 24
narrative_max_clusters_per_cycle == 2
MinClusterSize == 5
MaxCallers == 2
MaxCalls == 4
MaxTicks == 4
TickSeconds == 30
rate_limit_read_per_minute == 3
rate_limit_write_per_minute == 2

\* --------------------------------------------------------- program constants
validation_threshold == 2
BASE_WEIGHT == 100
FlagThreshold == -2
RefillWindow == 60
BucketTtl == 120
RetryAfter == 60

\* multipliers of trust_score are quarters (DecayDen); one stored unit of
\* trust_score is 1/(1000 * TrustUnit)
DecayDen == 4
TrustUnit == 4 ^ MaxCycles

\* one stored unit of a bucket's tokens is 1/TokenUnit token
TokenUnit == RefillWindow

\* ------------------------------------------------------------------ fixtures
Users == {"u1", "u2", "u3", "u4"}
Traces == {"t1", "t2"}
Tags == {"a", "b", "c"}
Sessions == 1..MaxSessions

\* contributor_id and the trace_tags rows of each trace (set at submission)
OwnerOf(t) == "u1"
TagsOf(t) == IF t = "t1" THEN <<"a">> ELSE <<"b", "c">>

\* u4 has a track record in domain a from a trace outside this fixture: one
\* upvote, recorded by update_contributor_domain_reputation
SeedContributor == "u4"

EmptyFn == [x \in {} |-> 0]
Range(f) == {f[x] : x \in DOMAIN f}
Max(a, b) == IF a >= b THEN a ELSE b

\* ---------------------------------------------------------------- Wilson
RECURSIVE IsqrtIn(_, _, _)
IsqrtIn(x, lo, hi) ==
    IF lo >= hi THEN lo
    ELSE LET mid == (lo + hi + 1) \div 2
         IN IF mid * mid <= x THEN IsqrtIn(x, mid, hi) ELSE IsqrtIn(x, lo, mid - 1)

Isqrt(x) == IsqrtIn(x, 0, 46340)

\* wilson_score_lower_bound, times n over n:
\*   (u + z2/2 - z * sqrt(u(n-u)/n + z2/4)) / (n + z2),  z = 1.96, z2 = 3.8416
\* root is the square root in thousandths, num5 the numerator in 1/100000,
\* den4 the denominator in 1/10000; the result is in thousandths.
wilson_score_lower_bound(upvotes, total_votes) ==
    IF total_votes = 0 THEN 0
    ELSE LET n == total_votes
             root == Isqrt((upvotes * (n - upvotes) * 1000000) \div n + 960400)
             num5 == upvotes * 100000 + 192080 - 196 * root
             den4 == n * 10000 + 38416
         IN (num5 * 100) \div den4

\* ------------------------------------------------------------------- state
VARIABLES
    votes,      \* committed rows of table votes: records [trace, voter, vote_type]
    trace,      \* committed rows of table traces
    cdr,        \* committed rows of contributor_domain_reputation, keyed <<contributor, tag>>
    rep,        \* committed users.reputation_score
    tx,         \* per request session: position in cast_vote, locals, uncommitted writes
    cons,       \* the consolidation worker: position in the cycle, uncommitted writes
    runs,       \* committed consolidation_runs rows (their status), oldest first
    recent,     \* a completed run's completed_at lies within the configured interval
    serial,     \* reference: the trace rows obtained by running the committed
                \* transactions one after another, in commit order
    accepted,   \* reference: number of 201 responses per <<trace, voter>>
    response,   \* the latest response sent: HTTP status, and whether the voter's
                \* vote was already committed when the request arrived
    nreq,       \* requests received so far
    wq,         \* one call of get_vote_weight_for_trace: its inputs and its result
    bucket,     \* the Redis hashes rl:{user_id}:{bucket_type}
    clock,      \* the time, in seconds
    call,       \* per caller: position in check_rate_limit and its arguments
    result,     \* the outcome of the latest script run
    grp,        \* reference, per key: the latest run of script calls that
                \* carried one and the same timestamp
    gate,       \* per request session: what the rate limit dependency decided
    cycle,      \* run_consolidation_cycle job by job: position, locals, session
    run_rows,   \* committed consolidation_runs rows with their stats, oldest first
    effects,    \* per job: how many committed cycles include that job's writes
    embedding,  \* committed embedding columns of the traces awaiting vectors
    worker,     \* per embedding worker: position in process_batch, its locals,
                \* and what its latest batch did and returned
    written,    \* reference: committed embedding writes per trace
    wcall,      \* calls of wilson_score_lower_bound in binary64: inputs, locals, results
    eternal,    \* reference, per key: the bucket as the script calls would have
                \* left it had no key ever expired, and what it answered
    cluster,    \* committed, per convergence cluster: its non-flagged episodic
                \* traces (a count) and its pattern traces (a count)
    sched,      \* per scheduler: position in its cycle's synthesis job, locals,
                \* uncommitted pattern traces, what the job left in stats and
                \* the status of the run it committed last
    loop        \* consolidation_worker_loop: position, the time in seconds, the
                \* completed_at of the completed runs, how and when the
                \* latest call of run_consolidation_cycle ended

vars == <<votes, trace, cdr, rep, tx, cons, runs, recent, serial, accepted, response, nreq, wq,
          bucket, clock, call, result, grp, gate, cycle, run_rows, effects,
          embedding, worker, written, wcall, eternal, cluster, sched, loop>>

RateVars == <<bucket, clock, call, result, grp, eternal>>
CycleVars == <<cycle, run_rows, effects>>
EmbedVars == <<embedding, worker, written>>
LifeVars == <<cluster, sched, loop>>

NewTrace == [trust_score |-> 0, confirmation_count |-> 0, status |-> "pending",
             is_flagged |-> FALSE]

IdleTx == [pc |-> "idle", voter |-> "u1", trace |-> "t1", vote_type |-> "up",
           dup_at_start |-> FALSE, inserted |-> FALSE,
           vote_weight |-> 0, tags_left |-> <<>>, agg |-> 0,
           otrace |-> EmptyFn, ocdr |-> EmptyFn, ouser |-> EmptyFn]

IdleCons == [pc |-> "idle", tier |-> "seed", otrace |-> EmptyFn]

NoQuery == [rows |-> EmptyFn, score |-> 0, trace_tags |-> <<>>, weight |-> 0,
            done |-> FALSE]

\* ---- the bucket store and the consolidation run log before any call
RateUsers == {"u1", "u2"}
BucketTypes == {"read", "write"}
Callers == 1..MaxCallers

bucket_key(user, bucket_type) == <<user, bucket_type>>

Keys == {bucket_key(u, b) : u \in RateUsers, b \in BucketTypes}

NoBucket == [present |-> FALSE, tokens |-> 0, last_refill |-> 0, expires |-> 0]

IdleCall == [pc |-> "idle", user |-> "u1", bucket_type |-> "read",
             key |-> bucket_key("u1", "read"), max_tokens |-> 0,
             refill_rate |-> 0, now |-> 0]

NoResult == [key |-> bucket_key("u1", "read"), now |-> 0, allowed |-> FALSE,
             status |-> 0, retry_after |-> 0]

\* the never-expiring bucket of a key, the number of script calls on the key,
\* whether their timestamps came in non-decreasing order, and what the
\* never-expiring bucket answered to the latest of them
NoEternal == [present |-> FALSE, tokens |-> 0, last_refill |-> 0,
              n |-> 0, ordered |-> TRUE, allowed |-> FALSE]

NoGroup == [t |-> 0, start |-> 0, n |-> 0, ok |-> 0, fresh |-> FALSE,
            after_denial |-> FALSE, waited |-> 0, overlap |-> FALSE]

InitRate ==
    /\ bucket = [k \in Keys |-> NoBucket]
    /\ clock = 0
    /\ call = [p \in Callers |-> IdleCall]
    /\ result = NoResult
    /\ grp = [k \in Keys |-> NoGroup]
    /\ eternal = [k \in Keys |-> NoEternal]
    /\ gate = [s \in Sessions |-> "none"]

\* consolidation_worker.py 366-378: the names the jobs are listed under
JobNames == <<"trust_downscaled", "temperature_computation", "co_retrieval_links",
              "logs_pruned", "prospective_staled", "convergence_detected",
              "patterns_synthesized">>

IdleCycle == [pc |-> "idle", tier |-> "seed", jobs |-> <<>>, stats |-> EmptyFn,
              errors |-> <<>>, aborted |-> FALSE, otrace |-> EmptyFn,
              wrote |-> {}, ret |-> "none"]

InitCycle ==
    /\ cycle = IdleCycle
    /\ run_rows = <<>>
    /\ effects = [j \in Range(JobNames) |-> 0]

\* ---- the embedding queue and its workers before any batch
EmbedTraces == {"e1", "e2", "e3"}
Workers == 1..MaxWorkers

\* embedding.py line 8, and the model name the provider's response carries
OPENAI_MODEL == "text-embedding-3-small"
ResponseModel == "response.model"

\* a trace row's embedding, embedding_model_id and embedding_model_version
NoEmbedding == [vector |-> "NULL", model_id |-> "NULL", model_version |-> "NULL"]

\* kind, batch, calls, failed, processed and ret of an idle worker describe
\* the batch it ran last
IdleWorker == [pc |-> "idle", skip |-> FALSE, batch |-> <<>>, i |-> 1,
               owrites |-> EmptyFn, processed |-> 0, calls |-> 0, failed |-> {},
               kind |-> "none", ret |-> 0, nbatch |-> 0]

InitEmbed ==
    /\ embedding = [t \in EmbedTraces |-> NoEmbedding]
    /\ worker = [w \in Workers |-> IdleWorker]
    /\ written = [t \in EmbedTraces |-> 0]

\* ---- binary64 values: (-1)^neg * m * 2^e, m a natural number in limbs of
\* LimbBits bits, least significant first, with 2^52 <= m < 2^53; zero has
\* no limb
F64Zero == [neg |-> FALSE, m |-> <<>>, e |-> 0]

\* calls are the pairs <<upvotes, total_votes>> to evaluate, results what
\* the calls made so far returned; the rest are the locals of the call at hand
NoWilsonCall == [calls |-> <<>>, results |-> <<>>, pc |-> "start",
                 z |-> F64Zero, z2 |-> F64Zero, p_hat |-> F64Zero,
                 radicand |-> F64Zero, root |-> F64Zero, numerator |-> F64Zero]

\* ---- the convergence clusters, the schedulers and the worker loop at rest
Clusters == {"c1", "c2", "c3"}
Schedulers == 1..MaxSchedulers

NoCluster == [episodic |-> 0, patterns |-> 0]
IdleSched == [pc |-> "idle", skip |-> FALSE, others_failed |-> FALSE,
              candidates |-> <<>>, created |-> {}, stopped |-> FALSE,
              stats |-> [error |-> FALSE, value |-> 0], status |-> "none"]
IdleLoop == [pc |-> "start", now |-> 0, ticks |-> 0, completed |-> {},
             outcome |-> "none", returned_at |-> 0]

InitLife ==
    /\ cluster = [c \in Clusters |-> NoCluster]
    /\ sched = [p \in Schedulers |-> IdleSched]
    /\ loop = IdleLoop

Init ==
    /\ votes = {}
    /\ trace = [t \in Traces |-> NewTrace]
    /\ cdr = (<<SeedContributor, "a">> :>
                 [upvote_count |-> 1, downvote_count |-> 0,
                  wilson_score |-> wilson_score_lower_bound(1, 1)])
    /\ rep = [u \in Users |-> IF u = SeedContributor
                               THEN wilson_score_lower_bound(1, 1) ELSE 0]
    /\ tx = [s \in Sessions |-> IdleTx]
    /\ cons = IdleCons
    /\ runs = <<>>
    /\ recent = FALSE
    /\ serial = [t \in Traces |-> NewTrace]
    /\ accepted = [k \in Traces \X Users |-> 0]
    /\ response = [status |-> 0, dup_at_start |-> FALSE]
    /\ nreq = 0
    /\ wq = NoQuery
    /\ InitRate
    /\ InitCycle
    /\ InitEmbed
    /\ wcall = NoWilsonCall
    /\ InitLife

\* ------------------------------------------------------- rows and row locks
VoteKey(s) == <<tx[s].trace, tx[s].voter>>

HasVote(t, u) == \E v \in votes : v.trace = t /\ v.voter = u

\* the rows statement-level reads of session s see: its own writes over the
\* committed rows
TraceView(s, t) == IF t \in DOMAIN tx[s].otrace THEN tx[s].otrace[t] ELSE trace[t]
CdrView(s) == tx[s].ocdr @@ cdr
ConsTraceView(t) == IF t \in DOMAIN cons.otrace THEN cons.otrace[t] ELSE trace[t]

TraceLockedByOther(s, t) ==
    \/ \E o \in Sessions \ {s} : t \in DOMAIN tx[o].otrace
    \/ t \in DOMAIN cons.otrace

TraceLockedBySession(t) == \E o \in Sessions : t \in DOMAIN tx[o].otrace

CdrLockedByOther(s, k) == \E o \in Sessions \ {s} : k \in DOMAIN tx[o].ocdr

UserLockedByOther(s, u) == \E o \in Sessions \ {s} : u \in DOMAIN tx[o].ouser

VoteInsertPendingByOther(s) ==
    \E o \in Sessions \ {s} : tx[o].inserted /\ VoteKey(o) = VoteKey(s)

\* ------------------------------------------------ services/trust.py, pure parts
SetMax(S) == CHOOSE m \in S : \A x \in S : x <= m

get_vote_weight_no_floor(users, rows, voter_id, trace_tags) ==
    IF trace_tags = <<>>
    THEN IF users[voter_id] = 0 THEN BASE_WEIGHT ELSE users[voter_id]
    ELSE LET domain_scores ==
                 {rows[k].wilson_score :
                     k \in {j \in DOMAIN rows : j[1] = voter_id /\ j[2] \in Range(trace_tags)}}
         IN IF domain_scores = {} THEN BASE_WEIGHT ELSE SetMax(domain_scores)

\* users.reputation_score of the voter when the trace has no tags (a missing
\* or zero score is falsy and becomes BASE_WEIGHT); else the largest
\* wilson_score of the voter's rows whose domain_tag is on the trace
get_vote_weight_for_trace(users, rows, voter_id, trace_tags) ==
    IF trace_tags = <<>>
    THEN LET overall == IF users[voter_id] = 0 THEN BASE_WEIGHT ELSE users[voter_id]
         IN Max(BASE_WEIGHT, overall)
    ELSE LET domain_scores ==
                 {rows[k].wilson_score :
                     k \in {j \in DOMAIN rows : j[1] = voter_id /\ j[2] \in Range(trace_tags)}}
         IN IF domain_scores = {} THEN BASE_WEIGHT
            ELSE Max(BASE_WEIGHT, SetMax(domain_scores))

score_delta(vote_weight, is_upvote) == IF is_upvote THEN vote_weight ELSE -vote_weight

apply_vote_update_upvotes_only(row, delta) ==
    [row EXCEPT !.confirmation_count = IF delta > 0 THEN @ + 1 ELSE @,
                !.trust_score = @ + delta * TrustUnit]

\* the UPDATE of apply_vote_to_trace: both columns from the row's current values
apply_vote_update(row, delta) ==
    [row EXCEPT !.confirmation_count = @ + 1,
                !.trust_score = @ + delta * TrustUnit]

promotion_due_nonnegative(status, confirmation_count, trust_score) ==
    /\ status = "pending"
    /\ confirmation_count >= validation_threshold
    /\ trust_score >= 0

promotion_due_above_threshold(status, confirmation_count, trust_score) ==
    /\ status = "pending"
    /\ confirmation_count > validation_threshold
    /\ trust_score > 0

promotion_due(status, confirmation_count, trust_score) ==
    /\ status = "pending"
    /\ confirmation_count >= validation_threshold
    /\ trust_score > 0

apply_vote_promote_recompute(cur, reread) ==
    [cur EXCEPT !.status = IF reread.confirmation_count >= validation_threshold
                              /\ reread.trust_score > 0
                           THEN "validated" ELSE "pending"]

\* the conditional second UPDATE of apply_vote_to_trace, given the re-read row
apply_vote_promote(cur, reread) ==
    IF promotion_due(reread.status, reread.confirmation_count, reread.trust_score)
    THEN [cur EXCEPT !.status = "validated"]
    ELSE cur

\* INSERT ... ON CONFLICT DO UPDATE ... RETURNING of one (contributor, tag) row
cdr_upsert(rows, k, is_upvote) ==
    LET up_delta == IF is_upvote THEN 1 ELSE 0
        down_delta == IF is_upvote THEN 0 ELSE 1
    IN IF k \in DOMAIN rows
       THEN [rows[k] EXCEPT !.upvote_count = @ + up_delta,
                            !.downvote_count = @ + down_delta]
       ELSE [upvote_count |-> up_delta, downvote_count |-> down_delta, wilson_score |-> 0]

new_wilson_swapped(ret) ==
    wilson_score_lower_bound(ret.upvote_count, ret.downvote_count)

new_wilson(ret) ==
    wilson_score_lower_bound(ret.upvote_count, ret.upvote_count + ret.downvote_count)

RECURSIVE SumOver(_, _, _)
SumOver(rows, keys, field) ==
    IF keys = {} THEN 0
    ELSE LET k == CHOOSE j \in keys : TRUE
         IN rows[k][field] + SumOver(rows, keys \ {k}, field)

\* the aggregate SELECT sum(upvote_count), sum(downvote_count) and its Wilson score
overall_wilson(rows, contributor_id) ==
    LET mine == {k \in DOMAIN rows : k[1] = contributor_id}
        total_up == SumOver(rows, mine, "upvote_count")
        total_down == SumOver(rows, mine, "downvote_count")
    IN wilson_score_lower_bound(total_up, total_up + total_down)

\* ------------------------------------------------------ routers/votes.py
Respond(s, status) ==
    /\ tx' = [tx EXCEPT ![s] = IdleTx]
    /\ response' = [status |-> status, dup_at_start |-> tx[s].dup_at_start]

DbUnchanged == UNCHANGED <<votes, trace, cdr, rep>>
Others == UNCHANGED <<cons, runs, recent, serial, accepted, wq, RateVars, gate, CycleVars, EmbedVars, wcall, LifeVars>>
Step == UNCHANGED <<nreq, response>> /\ DbUnchanged /\ Others

\* lines 51-82: load the trace and its tags, refuse a self-vote, build the Vote
\* (a request the rate limit dependency let through; cast_vote_request has
\* the dependency in front)
cast_vote_begin(s) ==
    /\ tx[s].pc = "idle"
    /\ nreq < MaxRequests
    /\ \E u \in Users, t \in Traces, vt \in {"up", "down"} :
         IF OwnerOf(t) = u
         THEN /\ tx' = tx
              /\ response' = [status |-> 403, dup_at_start |-> FALSE]
         ELSE /\ tx' = [tx EXCEPT ![s] = [IdleTx EXCEPT !.pc = "flush", !.voter = u,
                                             !.trace = t, !.vote_type = vt,
                                             !.dup_at_start = HasVote(t, u)]]
              /\ response' = response
    /\ nreq' = nreq + 1
    /\ DbUnchanged /\ Others

cast_vote_flush_no_unique(s) ==
    /\ tx[s].pc = "flush"
    /\ tx' = [tx EXCEPT ![s].pc = "weight", ![s].inserted = TRUE]
    /\ UNCHANGED <<nreq, response>> /\ DbUnchanged /\ Others

cast_vote_flush_check_then_insert(s) ==
    /\ tx[s].pc = "flush"
    /\ IF HasVote(tx[s].trace, tx[s].voter)
       THEN Respond(s, 409)
       ELSE /\ tx' = [tx EXCEPT ![s].pc = "weight", ![s].inserted = TRUE]
            /\ response' = response
    /\ UNCHANGED nreq /\ DbUnchanged /\ Others

\* lines 84-94: flush the INSERT; the unique index waits for an uncommitted
\* insert of the same key, and refuses a committed one
cast_vote_flush(s) ==
    /\ tx[s].pc = "flush"
    /\ ~VoteInsertPendingByOther(s)
    /\ IF HasVote(tx[s].trace, tx[s].voter)
       THEN Respond(s, 409)
       ELSE /\ tx' = [tx EXCEPT ![s].pc = "weight", ![s].inserted = TRUE]
            /\ response' = response
    /\ UNCHANGED nreq /\ DbUnchanged /\ Others

\* lines 96-99
cast_vote_weight(s) ==
    /\ tx[s].pc = "weight"
    /\ tx' = [tx EXCEPT ![s].pc = "update",
                        ![s].vote_weight =
                            get_vote_weight_for_trace(rep, CdrView(s), tx[s].voter,
                                                      TagsOf(tx[s].trace))]
    /\ Step

apply_vote_to_trace_update_no_lock(s) ==
    /\ tx[s].pc = "update"
    /\ LET t == tx[s].trace
           delta == score_delta(tx[s].vote_weight, tx[s].vote_type = "up")
       IN tx' = [tx EXCEPT ![s].pc = "promote",
                           ![s].otrace = (t :> apply_vote_update(TraceView(s, t), delta))]
    /\ Step

\* trust.py 85-96: the delta UPDATE takes the row lock (waits for its holder)
apply_vote_to_trace_update(s) ==
    /\ tx[s].pc = "update"
    /\ ~TraceLockedByOther(s, tx[s].trace)
    /\ LET t == tx[s].trace
           delta == score_delta(tx[s].vote_weight, tx[s].vote_type = "up")
       IN tx' = [tx EXCEPT ![s].pc = "promote",
                           ![s].otrace = (t :> apply_vote_update(TraceView(s, t), delta))]
    /\ Step

apply_vote_to_trace_promote_stale(s) ==
    /\ tx[s].pc = "promote"
    /\ LET t == tx[s].trace
           reread == trace[t]
       IN tx' = [tx EXCEPT ![s].pc = IF TagsOf(t) = <<>> THEN "commit" ELSE "upsert",
                           ![s].tags_left = TagsOf(t),
                           ![s].otrace = (t :> apply_vote_promote(TraceView(s, t), reread))]
    /\ Step

\* trust.py 98-121: re-query the row and promote it when due (the row is
\* locked by this transaction, no writer comes between the two statements);
\* then update_contributor_domain_reputation's early return, line 192
apply_vote_to_trace_promote(s) ==
    /\ tx[s].pc = "promote"
    /\ LET t == tx[s].trace
           reread == TraceView(s, t)
       IN tx' = [tx EXCEPT ![s].pc = IF TagsOf(t) = <<>> THEN "commit" ELSE "upsert",
                           ![s].tags_left = TagsOf(t),
                           ![s].otrace = (t :> apply_vote_promote(TraceView(s, t), reread))]
    /\ Step

\* trust.py 195-228, one tag of the loop: the upsert takes the row's lock and
\* returns the new counters, the second UPDATE stores their Wilson score
update_reputation_tag(s) ==
    /\ tx[s].pc = "upsert"
    /\ LET k == <<OwnerOf(tx[s].trace), Head(tx[s].tags_left)>>
           rest == Tail(tx[s].tags_left)
           row == cdr_upsert(CdrView(s), k, tx[s].vote_type = "up")
           ret == [upvote_count |-> row.upvote_count, downvote_count |-> row.downvote_count]
       IN /\ ~CdrLockedByOther(s, k)
          /\ tx' = [tx EXCEPT ![s].pc = IF rest = <<>> THEN "aggregate" ELSE "upsert",
                              ![s].tags_left = rest,
                              ![s].ocdr = (k :> [row EXCEPT !.wilson_score = new_wilson(ret)]) @@ @]
    /\ Step

\* trust.py 230-240: sum the contributor's counters, compute the score in Python
update_reputation_aggregate(s) ==
    /\ tx[s].pc = "aggregate"
    /\ tx' = [tx EXCEPT ![s].pc = "user",
                        ![s].agg = overall_wilson(CdrView(s), OwnerOf(tx[s].trace))]
    /\ Step

\* trust.py 242-247: UPDATE users SET reputation_score, taking the user row's lock
update_reputation_user(s) ==
    /\ tx[s].pc = "user"
    /\ ~UserLockedByOther(s, OwnerOf(tx[s].trace))
    /\ tx' = [tx EXCEPT ![s].pc = "commit", ![s].agg = 0,
                        ![s].ouser = (OwnerOf(tx[s].trace) :> tx[s].agg)]
    /\ Step

\* the trace row one committed vote gives when nothing runs beside it
SerialVote(row, delta) ==
    LET upd == apply_vote_update(row, delta) IN apply_vote_promote(upd, upd)

\* line 117: commit; the response is 201
cast_vote_commit(s) ==
    /\ tx[s].pc = "commit"
    /\ LET t == tx[s].trace
           delta == score_delta(tx[s].vote_weight, tx[s].vote_type = "up")
       IN /\ votes' = votes \cup {[trace |-> t, voter |-> tx[s].voter,
                                    vote_type |-> tx[s].vote_type]}
          /\ trace' = tx[s].otrace @@ trace
          /\ cdr' = tx[s].ocdr @@ cdr
          /\ rep' = tx[s].ouser @@ rep
          /\ serial' = [serial EXCEPT ![t] = SerialVote(@, delta)]
          /\ accepted' = [accepted EXCEPT ![VoteKey(s)] = @ + 1]
    /\ Respond(s, 201)
    /\ UNCHANGED <<nreq, cons, runs, recent, wq, RateVars, gate, CycleVars, EmbedVars, wcall, LifeVars>>

\* any other storage failure (a deadlock victim, a lost connection):
\* the exception leaves the handler and the session context rolls back
cast_vote_fail(s) ==
    /\ tx[s].pc # "idle"
    /\ Respond(s, 500)
    /\ UNCHANGED nreq /\ DbUnchanged /\ Others

\* ------------------------------------------- worker/consolidation_worker.py
MaturityTiers == {"seed", "growing", "mature"}

\* services/maturity.py: no decay in seed, moderate in growing, aggressive in
\* mature; the multiplier in quarters
get_decay_multiplier(tier) ==
    CASE tier = "seed" -> DecayDen
      [] tier = "growing" -> 3
      [] OTHER -> 2

\* trust_score * decay_factor
trust_decay(trust_score, decay_num) == (trust_score * decay_num) \div DecayDen

ConsUnchanged == UNCHANGED <<votes, cdr, rep, tx, accepted, response, nreq, wq,
                             RateVars, gate, CycleVars, EmbedVars, wcall, LifeVars>>

trust_downscaling_every_row(rows, decay_num) ==
    IF decay_num >= DecayDen THEN EmptyFn
    ELSE [t \in DOMAIN rows |->
             [rows[t] EXCEPT !.trust_score = trust_decay(@, decay_num)]]

\* lines 40-47: the rows the decay UPDATE writes, with their new values
trust_downscaling(rows, decay_num) ==
    IF decay_num >= DecayDen THEN EmptyFn
    ELSE [t \in {r \in DOMAIN rows : rows[r].trust_score > 0} |->
             [rows[t] EXCEPT !.trust_score = trust_decay(@, decay_num)]]

compute_temperatures_flag_follows_score(rows) ==
    [t \in {r \in DOMAIN rows :
                rows[r].is_flagged # (rows[r].trust_score < FlagThreshold * 1000 * TrustUnit)} |->
        [rows[t] EXCEPT !.is_flagged = ~@]]

\* lines 90-96 of _compute_temperatures: the rows the flagging UPDATE writes
\* (memory_temperature and is_stale, lines 56-88, are columns outside this state)
compute_temperatures(rows) ==
    [t \in {r \in DOMAIN rows : rows[r].trust_score < FlagThreshold * 1000 * TrustUnit
                                /\ ~rows[r].is_flagged} |->
        [rows[t] EXCEPT !.is_flagged = TRUE]]

\* lines 341-368: the guard on a recent completed run, the run row, the tier,
\* and the first job, the decay UPDATE, which takes the lock of each row it
\* writes and so waits while a vote holds one
run_consolidation_cycle_begin ==
    /\ cons.pc = "idle"
    /\ IF recent
       THEN cons' = IdleCons
       ELSE /\ Len(runs) < MaxCycles
            /\ \E tier \in MaturityTiers :
                 LET writes == trust_downscaling(trace, get_decay_multiplier(tier))
                 IN /\ \A t \in DOMAIN writes : ~TraceLockedBySession(t)
                    /\ cons' = [pc |-> "jobs", tier |-> tier, otrace |-> writes]
    /\ UNCHANGED <<trace, runs, recent, serial>> /\ ConsUnchanged

\* what the cycle's writes to row t do to a row that holds `row`
SerialCycle(row, writes, t) ==
    IF t \notin DOMAIN writes THEN row
    ELSE [row EXCEPT !.trust_score = IF writes[t].trust_score # trace[t].trust_score
                                     THEN trust_decay(@, get_decay_multiplier(cons.tier))
                                     ELSE @,
                     !.is_flagged = writes[t].is_flagged]

\* lines 369-395: the temperature job's flagging UPDATE (the jobs after it
\* write no column of this state), the run row finalized, the commit
run_consolidation_cycle_commit ==
    /\ cons.pc = "jobs"
    /\ LET view == cons.otrace @@ trace
           writes == compute_temperatures(view) @@ cons.otrace
       IN /\ \A t \in DOMAIN writes : ~TraceLockedBySession(t)
          /\ trace' = writes @@ trace
          /\ serial' = [t \in Traces |-> SerialCycle(serial[t], writes, t)]
    /\ runs' = Append(runs, "completed")
    /\ recent' = TRUE
    /\ cons' = IdleCons
    /\ ConsUnchanged

\* lines 413-418: a cycle that raises is rolled back and logged by the loop
run_consolidation_cycle_fail ==
    /\ cons.pc # "idle"
    /\ cons' = IdleCons
    /\ UNCHANGED <<trace, runs, recent, serial>> /\ ConsUnchanged

\* the configured interval passes since the last completed run
interval_elapses ==
    /\ recent
    /\ recent' = FALSE
    /\ UNCHANGED <<trace, runs, cons, serial>> /\ ConsUnchanged

\* ------------------------------------------------------------ specification
Next ==
    \/ \E s \in Sessions : cast_vote_begin(s)
    \/ \E s \in Sessions : cast_vote_flush(s)
    \/ \E s \in Sessions : cast_vote_weight(s)
    \/ \E s \in Sessions : apply_vote_to_trace_update(s)
    \/ \E s \in Sessions : apply_vote_to_trace_promote(s)
    \/ \E s \in Sessions : update_reputation_tag(s)
    \/ \E s \in Sessions : update_reputation_aggregate(s)
    \/ \E s \in Sessions : update_reputation_user(s)
    \/ \E s \in Sessions : cast_vote_commit(s)
    \/ \E s \in Sessions : cast_vote_fail(s)
    \/ run_consolidation_cycle_begin
    \/ run_consolidation_cycle_commit
    \/ run_consolidation_cycle_fail
    \/ interval_elapses

Spec == Init /\ [][Next]_vars

\* --------------------------------------- routers/moderation.py, flag_trace
\* a trace stored with a trust score of -2.05, below the flagging threshold
\* by less than one vote of base weight, beside a trace at 0
InitFlag ==
    /\ votes = {}
    /\ trace = [t \in Traces |->
                  IF t = "t1"
                  THEN [NewTrace EXCEPT !.trust_score =
                                           (FlagThreshold * 1000 - 50) * TrustUnit]
                  ELSE NewTrace]
    /\ cdr = EmptyFn
    /\ rep = [u \in Users |-> 0]
    /\ tx = [s \in Sessions |-> IdleTx]
    /\ cons = IdleCons
    /\ runs = <<>>
    /\ recent = FALSE
    /\ serial = trace
    /\ accepted = [k \in Traces \X Users |-> 0]
    /\ response = [status |-> 0, dup_at_start |-> FALSE]
    /\ nreq = 0
    /\ wq = NoQuery
    /\ InitRate
    /\ InitCycle
    /\ InitEmbed
    /\ wcall = NoWilsonCall
    /\ InitLife

\* moderation.py 48-75: the trace is read; a flagged one is answered at once
\* (54-60); else the UPDATE sets is_flagged, waiting for the holder of the
\* row's lock, and the session commits
flag_trace(t) ==
    /\ nreq < MaxRequests
    /\ nreq' = nreq + 1
    /\ response' = [status |-> 200, dup_at_start |-> FALSE]
    /\ IF trace[t].is_flagged
       THEN UNCHANGED <<trace, serial>>
       ELSE /\ ~TraceLockedBySession(t)
            /\ t \notin DOMAIN cons.otrace
            /\ trace' = [trace EXCEPT ![t].is_flagged = TRUE]
            /\ serial' = [serial EXCEPT ![t].is_flagged = TRUE]
    /\ UNCHANGED <<votes, cdr, rep, tx, accepted, cons, runs, recent, wq, RateVars, gate,
                   CycleVars, EmbedVars, wcall, LifeVars>>

NextFlag ==
    \/ Next
    \/ \E t \in Traces : flag_trace(t)

SpecFlag == InitFlag /\ [][NextFlag]_vars

\* ---------------------------------------- get_vote_weight_for_trace by itself
\* The voter's reputation rows (counters with their Wilson score, as
\* update_contributor_domain_reputation leaves them), the voter's
\* users.reputation_score and the trace's tags are drawn from bounded sets.
MaxCount == 2
QueryVoter == "u2"
QueryTags == {"a", "b"}
TagLists == {<<>>, <<"a">>, <<"b">>, <<"a", "b">>, <<"c">>}

CounterRows ==
    {[upvote_count |-> u, downvote_count |-> d,
      wilson_score |-> wilson_score_lower_bound(u, u + d)] :
        u \in 0..MaxCount, d \in 0..MaxCount} \
    {[upvote_count |-> 0, downvote_count |-> 0, wilson_score |-> 0]}

Scores == {wilson_score_lower_bound(u, u + d) : u \in 0..MaxCount, d \in 0..MaxCount}

\* a row of another contributor, which the voter filter must leave out
OtherRows == (<<"u3", "a">> :>
                 [upvote_count |-> MaxCount + 1, downvote_count |-> 0,
                  wilson_score |-> wilson_score_lower_bound(MaxCount + 1, MaxCount + 1)])

InitWeight ==
    /\ votes = {}
    /\ trace = [t \in Traces |-> NewTrace]
    /\ cdr = EmptyFn
    /\ rep = [u \in Users |-> 0]
    /\ tx = [s \in Sessions |-> IdleTx]
    /\ cons = IdleCons
    /\ runs = <<>>
    /\ recent = FALSE
    /\ serial = [t \in Traces |-> NewTrace]
    /\ accepted = [k \in Traces \X Users |-> 0]
    /\ response = [status |-> 0, dup_at_start |-> FALSE]
    /\ nreq = 0
    /\ \E present \in SUBSET QueryTags :
         \E rows \in [{<<QueryVoter, g>> : g \in present} -> CounterRows] :
           \E score \in Scores, tags \in TagLists :
             wq = [rows |-> rows @@ OtherRows, score |-> score, trace_tags |-> tags,
                   weight |-> 0, done |-> FALSE]
    /\ InitRate
    /\ InitCycle
    /\ InitEmbed
    /\ wcall = NoWilsonCall
    /\ InitLife

weight_query ==
    /\ ~wq.done
    /\ wq' = [wq EXCEPT !.done = TRUE,
                        !.weight = get_vote_weight_for_trace(
                                       (QueryVoter :> wq.score), wq.rows,
                                       QueryVoter, wq.trace_tags)]
    /\ UNCHANGED <<votes, trace, cdr, rep, tx, cons, runs, recent, serial,
                   accepted, response, nreq, RateVars, gate, CycleVars, EmbedVars, wcall, LifeVars>>

NextWeight == weight_query

SpecWeight == InitWeight /\ [][NextWeight]_vars

\* ------------------------------------------------ middleware/rate_limiter.py
Min(a, b) == IF a <= b THEN a ELSE b

\* HGETALL: a key past its TTL is not seen
bucket_get(k) ==
    IF bucket[k].present /\ clock < bucket[k].expires THEN bucket[k] ELSE NoBucket

max_tokens_for(bucket_type) ==
    IF bucket_type = "read" THEN rate_limit_read_per_minute
    ELSE rate_limit_write_per_minute

\* max_tokens / 60.0 tokens per second, in stored units per second
refill_rate(max_tokens) == (max_tokens * TokenUnit) \div RefillWindow

RATE_LIMIT_LUA_strict(data, max_tokens, rate, now) ==
    LET tokens == IF data.present THEN data.tokens ELSE max_tokens * TokenUnit
        last_refill == IF data.present THEN data.last_refill ELSE now
        refilled == Min(tokens + (now - last_refill) * rate, max_tokens * TokenUnit)
        allowed == refilled > TokenUnit
    IN [allowed |-> allowed, refilled |-> refilled, last_refill |-> now,
        tokens |-> IF allowed THEN refilled - TokenUnit ELSE refilled]

RATE_LIMIT_LUA_no_consume(data, max_tokens, rate, now) ==
    LET tokens == IF data.present THEN data.tokens ELSE max_tokens * TokenUnit
        last_refill == IF data.present THEN data.last_refill ELSE now
        refilled == Min(tokens + (now - last_refill) * rate, max_tokens * TokenUnit)
    IN [allowed |-> refilled >= TokenUnit, refilled |-> refilled, last_refill |-> now,
        tokens |-> refilled]

\* the script, lines 28-66: what it returns and what it stores, given the
\* hash it loaded (refilled is new_tokens before the attempt to consume)
RATE_LIMIT_LUA(data, max_tokens, rate, now) ==
    LET tokens == IF data.present THEN data.tokens ELSE max_tokens * TokenUnit
        last_refill == IF data.present THEN data.last_refill ELSE now
        elapsed == now - last_refill
        refilled == Min(tokens + elapsed * rate, max_tokens * TokenUnit)
        allowed == refilled >= TokenUnit
    IN [allowed |-> allowed, refilled |-> refilled, last_refill |-> now,
        tokens |-> IF allowed THEN refilled - TokenUnit ELSE refilled]

RateFrame == UNCHANGED <<votes, trace, cdr, rep, tx, cons, runs, recent, serial,
                         accepted, response, wq, gate, CycleVars, EmbedVars, wcall, LifeVars>>

check_rate_limit_begin_shared_key(p) ==
    /\ call[p].pc = "idle"
    /\ nreq < MaxCalls
    /\ \E user \in RateUsers, bucket_type \in BucketTypes :
         call' = [call EXCEPT ![p] =
                     [pc |-> "eval", user |-> user, bucket_type |-> bucket_type,
                      key |-> bucket_key(user, "read"),
                      max_tokens |-> max_tokens_for(bucket_type),
                      refill_rate |-> refill_rate(max_tokens_for(bucket_type)),
                      now |-> clock]]
    /\ nreq' = nreq + 1
    /\ UNCHANGED <<bucket, clock, result, grp, eternal>> /\ RateFrame

\* lines 86-94 and 102: the key, the capacity of the class, the rate, and
\* the caller's time.time(), all fixed before the script is sent
check_rate_limit_begin(p) ==
    /\ call[p].pc = "idle"
    /\ nreq < MaxCalls
    /\ \E user \in RateUsers, bucket_type \in BucketTypes :
         call' = [call EXCEPT ![p] =
                     [pc |-> "eval", user |-> user, bucket_type |-> bucket_type,
                      key |-> bucket_key(user, bucket_type),
                      max_tokens |-> max_tokens_for(bucket_type),
                      refill_rate |-> refill_rate(max_tokens_for(bucket_type)),
                      now |-> clock]]
    /\ nreq' = nreq + 1
    /\ UNCHANGED <<bucket, clock, result, grp, eternal>> /\ RateFrame

\* what one more script call on key k, by caller p, makes of the run of
\* same-timestamp calls on k
next_group(p, k, data, out) ==
    LET t == call[p].now
        others == \E q \in Callers \ {p} :
                     call[q].pc = "eval" /\ call[q].key = k /\ call[q].now = t
        one == IF out.allowed THEN 1 ELSE 0
    IN IF grp[k].n > 0 /\ grp[k].t = t /\ data.present
       THEN [grp[k] EXCEPT !.n = @ + 1, !.ok = @ + one, !.overlap = @ \/ others]
       ELSE [t |-> t, start |-> out.refilled, n |-> 1, ok |-> one,
             fresh |-> ~data.present,
             after_denial |-> grp[k].n > grp[k].ok,
             waited |-> t - grp[k].t,
             overlap |-> others]

\* what one more script call on key k, by caller p, makes of the key's
\* never-expiring bucket: the same script on a hash that is never dropped
next_eternal(p, k) ==
    LET out == RATE_LIMIT_LUA(eternal[k], call[p].max_tokens, call[p].refill_rate,
                              call[p].now)
    IN [present |-> TRUE, tokens |-> out.tokens, last_refill |-> out.last_refill,
        n |-> eternal[k].n + 1,
        ordered |-> eternal[k].ordered
                    /\ (eternal[k].present => call[p].now >= eternal[k].last_refill),
        allowed |-> out.allowed]

\* lines 96-110: the script runs on the server as one step; HSET and EXPIRE
\* store its result; a denial is answered 429 with Retry-After
check_rate_limit_eval(p) ==
    /\ call[p].pc = "eval"
    /\ LET k == call[p].key
           data == bucket_get(k)
           out == RATE_LIMIT_LUA(data, call[p].max_tokens, call[p].refill_rate, call[p].now)
       IN /\ bucket' = [bucket EXCEPT ![k] =
                           [present |-> TRUE, tokens |-> out.tokens,
                            last_refill |-> out.last_refill,
                            expires |-> clock + BucketTtl]]
          /\ result' = [key |-> k, now |-> call[p].now, allowed |-> out.allowed,
                        status |-> IF out.allowed THEN 0 ELSE 429,
                        retry_after |-> IF out.allowed THEN 0 ELSE RetryAfter]
          /\ grp' = [grp EXCEPT ![k] = next_group(p, k, data, out)]
          /\ eternal' = [eternal EXCEPT ![k] = next_eternal(p, k)]
    /\ call' = [call EXCEPT ![p] = IdleCall]
    /\ UNCHANGED <<clock, nreq>> /\ RateFrame

\* time passes
tick ==
    /\ clock < MaxTicks * TickSeconds
    /\ clock' = clock + TickSeconds
    /\ UNCHANGED <<bucket, call, result, grp, eternal, nreq>> /\ RateFrame

\* the server drops a key whose TTL has passed
redis_expire(k) ==
    /\ bucket[k].present
    /\ clock >= bucket[k].expires
    /\ bucket' = [bucket EXCEPT ![k] = NoBucket]
    /\ UNCHANGED <<clock, call, result, grp, eternal, nreq>> /\ RateFrame

NextRate ==
    \/ \E p \in Callers : check_rate_limit_begin(p)
    \/ \E p \in Callers : check_rate_limit_eval(p)
    \/ tick
    \/ \E k \in Keys : redis_expire(k)

SpecRate == Init /\ [][NextRate]_vars

\* ----------------------------- routers/votes.py behind the write rate limit
GateFrame == UNCHANGED <<cons, runs, recent, serial, accepted, wq, clock, call,
                         result, grp, eternal, CycleVars, EmbedVars, wcall, LifeVars>>

cast_vote_request_unchecked(s) ==
    /\ tx[s].pc = "idle"
    /\ nreq < MaxRequests
    /\ \E u \in RateUsers, t \in Traces, vt \in {"up", "down"} :
         LET k == bucket_key(u, "write")
             max_tokens == max_tokens_for("write")
             out == RATE_LIMIT_LUA(bucket_get(k), max_tokens, refill_rate(max_tokens), clock)
         IN /\ bucket' = [bucket EXCEPT ![k] =
                             [present |-> TRUE, tokens |-> out.tokens,
                              last_refill |-> out.last_refill,
                              expires |-> clock + BucketTtl]]
            /\ gate' = [gate EXCEPT ![s] = IF out.allowed THEN "allowed" ELSE "denied"]
            /\ IF OwnerOf(t) = u
               THEN /\ tx' = tx
                    /\ response' = [status |-> 403, dup_at_start |-> FALSE]
               ELSE /\ tx' = [tx EXCEPT ![s] =
                                 [IdleTx EXCEPT !.pc = "flush", !.voter = u,
                                                !.trace = t, !.vote_type = vt,
                                                !.dup_at_start = HasVote(t, u)]]
                    /\ response' = response
    /\ nreq' = nreq + 1
    /\ DbUnchanged /\ GateFrame

\* votes.py 32-38 with rate_limiter.py 125-139 and 86-110: the WriteRateLimit
\* dependency is resolved before the body of cast_vote; when it raises 429
\* the body does not run; otherwise the body starts as in cast_vote_begin
cast_vote_request(s) ==
    /\ tx[s].pc = "idle"
    /\ nreq < MaxRequests
    /\ \E u \in RateUsers, t \in Traces, vt \in {"up", "down"} :
         LET k == bucket_key(u, "write")
             max_tokens == max_tokens_for("write")
             out == RATE_LIMIT_LUA(bucket_get(k), max_tokens, refill_rate(max_tokens), clock)
         IN /\ bucket' = [bucket EXCEPT ![k] =
                             [present |-> TRUE, tokens |-> out.tokens,
                              last_refill |-> out.last_refill,
                              expires |-> clock + BucketTtl]]
            /\ gate' = [gate EXCEPT ![s] = IF out.allowed THEN "allowed" ELSE "denied"]
            /\ IF ~out.allowed
               THEN /\ tx' = tx
                    /\ response' = [status |-> 429, dup_at_start |-> FALSE]
               ELSE IF OwnerOf(t) = u
               THEN /\ tx' = tx
                    /\ response' = [status |-> 403, dup_at_start |-> FALSE]
               ELSE /\ tx' = [tx EXCEPT ![s] =
                                 [IdleTx EXCEPT !.pc = "flush", !.voter = u,
                                                !.trace = t, !.vote_type = vt,
                                                !.dup_at_start = HasVote(t, u)]]
                    /\ response' = response
    /\ nreq' = nreq + 1
    /\ DbUnchanged /\ GateFrame

NextGate ==
    \/ \E s \in Sessions : cast_vote_request(s)
    \/ \E s \in Sessions : cast_vote_flush(s)
    \/ \E s \in Sessions : cast_vote_weight(s)
    \/ \E s \in Sessions : apply_vote_to_trace_update(s)
    \/ \E s \in Sessions : apply_vote_to_trace_promote(s)
    \/ \E s \in Sessions : update_reputation_tag(s)
    \/ \E s \in Sessions : update_reputation_aggregate(s)
    \/ \E s \in Sessions : update_reputation_user(s)
    \/ \E s \in Sessions : cast_vote_commit(s)
    \/ \E s \in Sessions : cast_vote_fail(s)

SpecGate == Init /\ [][NextGate]_vars

\* ------------------- worker/consolidation_worker.py, the cycle job by job
\* trust scores of the stored traces when the worker starts: -3.0, 0 and 4.0
CycleScores == {(-3000) * TrustUnit, 0, 4000 * TrustUnit}
CycleRows == {[NewTrace EXCEPT !.trust_score = v] : v \in CycleScores}

InitCycleRuns ==
    /\ votes = {}
    /\ trace \in [Traces -> CycleRows]
    /\ cdr = EmptyFn
    /\ rep = [u \in Users |-> 0]
    /\ tx = [s \in Sessions |-> IdleTx]
    /\ cons = IdleCons
    /\ runs = <<>>
    /\ recent = FALSE
    /\ serial = [t \in Traces |-> NewTrace]
    /\ accepted = [k \in Traces \X Users |-> 0]
    /\ response = [status |-> 0, dup_at_start |-> FALSE]
    /\ nreq = 0
    /\ wq = NoQuery
    /\ InitRate
    /\ InitCycle
    /\ InitEmbed
    /\ wcall = NoWilsonCall
    /\ InitLife

\* lines 383-390: what the loop stores under a key of stats, the value a
\* job returned or the string "error"
JobResult(v) == [error |-> FALSE, value |-> v]
JobError == [error |-> TRUE, value |-> 0]

JobsFor_every_tier(tier) == JobNames

\* lines 366-378: five jobs, and two more in the growing and mature tiers
JobsFor(tier) ==
    IF tier \in {"growing", "mature"} THEN JobNames ELSE SubSeq(JobNames, 1, 5)

\* lines 40-41: the decay job sends no statement when the multiplier is one;
\* every other job starts with a statement on the shared session
SendsStatement(job, tier) ==
    ~(job = "trust_downscaled" /\ get_decay_multiplier(tier) >= DecayDen)

\* jobs with code of their own between statements: classify_temperature
\* (lines 71-77), detect_convergence_clusters (line 172), the synthesis
\* (lines 175-331); the other jobs consist of statements only
RaisesByItself(job) ==
    job \in {"temperature_computation", "convergence_detected", "patterns_synthesized"}

CycleFrame == UNCHANGED <<votes, cdr, rep, tx, cons, runs, serial, accepted,
                          response, nreq, wq, RateVars, gate, EmbedVars, wcall, LifeVars>>

run_consolidation_cycle_guard_no_check ==
    /\ cycle.pc = "idle"
    /\ Len(run_rows) < MaxRuns
    /\ \E tier \in MaturityTiers :
         cycle' = [IdleCycle EXCEPT !.pc = "jobs", !.tier = tier,
                                    !.jobs = JobsFor(tier),
                                    !.stats = ("maturity_tier" :> JobResult(tier))]
    /\ UNCHANGED <<trace, recent, run_rows, effects>> /\ CycleFrame

run_consolidation_cycle_guard_commit_running ==
    /\ cycle.pc = "idle"
    /\ IF recent
       THEN /\ cycle' = [IdleCycle EXCEPT !.ret = "skipped"]
            /\ run_rows' = run_rows
       ELSE /\ Len(run_rows) < MaxRuns
            /\ run_rows' = Append(run_rows, [status |-> "running", stats_json |-> EmptyFn])
            /\ \E tier \in MaturityTiers :
                 cycle' = [IdleCycle EXCEPT !.pc = "jobs", !.tier = tier,
                                            !.jobs = JobsFor(tier),
                                            !.stats = ("maturity_tier" :> JobResult(tier))]
    /\ UNCHANGED <<trace, recent, effects>> /\ CycleFrame

\* lines 341-378: a completed run within the interval ends the invocation
\* with {"skipped": True}; otherwise the run row is flushed, the tier is
\* read and the jobs are listed
run_consolidation_cycle_guard ==
    /\ cycle.pc = "idle"
    /\ IF recent
       THEN cycle' = [IdleCycle EXCEPT !.ret = "skipped"]
       ELSE /\ Len(run_rows) < MaxRuns
            /\ \E tier \in MaturityTiers :
                 cycle' = [IdleCycle EXCEPT !.pc = "jobs", !.tier = tier,
                                            !.jobs = JobsFor(tier),
                                            !.stats = ("maturity_tier" :> JobResult(tier))]
    /\ UNCHANGED <<trace, recent, run_rows, effects>> /\ CycleFrame

\* lines 380-390, one turn of the loop.  The job returns and its result goes
\* into stats (a dict is merged, lines 383-384; of the temperature job's
\* dict the key newly_flagged concerns this state); or the job's own code
\* raises; or one of its statements fails, which also happens to every
\* statement sent after a failed one, since all jobs send theirs in the one
\* transaction of the cycle's session (line 340) and PostgreSQL refuses
\* statements in a failed transaction until it is rolled back
run_consolidation_cycle_job ==
    /\ cycle.pc = "jobs"
    /\ LET job == Head(cycle.jobs)
           rest == Tail(cycle.jobs)
           view == cycle.otrace @@ trace
           next_pc == IF rest = <<>> THEN "finalize" ELSE "jobs"
           failed(aborted) ==
               [cycle EXCEPT !.jobs = rest, !.pc = next_pc,
                             !.stats = (job :> JobError) @@ @,
                             !.errors = Append(@, job), !.aborted = aborted]
           done(key, value, writes) ==
               [cycle EXCEPT !.jobs = rest, !.pc = next_pc,
                             !.stats = (key :> JobResult(value)) @@ @,
                             !.otrace = writes @@ @, !.wrote = @ \cup {job}]
       IN \/ /\ ~(cycle.aborted /\ SendsStatement(job, cycle.tier))
             /\ CASE job = "trust_downscaled" ->
                       LET writes == trust_downscaling(view, get_decay_multiplier(cycle.tier))
                       IN cycle' = done(job, Cardinality(DOMAIN writes), writes)
                  [] job = "temperature_computation" ->
                       LET writes == compute_temperatures(view)
                       IN cycle' = done("newly_flagged", Cardinality(DOMAIN writes), writes)
                  [] OTHER ->
                       \E n \in 0..MaxRowCount : cycle' = done(job, n, EmptyFn)
          \/ /\ RaisesByItself(job)
             /\ ~cycle.aborted
             /\ cycle' = failed(FALSE)
          \/ /\ SendsStatement(job, cycle.tier)
             /\ cycle' = failed(TRUE)
    /\ UNCHANGED <<trace, recent, run_rows, effects>> /\ CycleFrame

run_consolidation_cycle_finalize_any_status ==
    /\ cycle.pc = "finalize"
    /\ IF cycle.aborted
       THEN /\ cycle' = [IdleCycle EXCEPT !.ret = "raised"]
            /\ UNCHANGED <<trace, recent, run_rows, effects>>
       ELSE LET status == IF cycle.errors = <<>> THEN "completed" ELSE "partial"
            IN /\ run_rows' = Append(run_rows, [status |-> status,
                                                 stats_json |-> cycle.stats])
               /\ trace' = cycle.otrace @@ trace
               /\ effects' = [j \in DOMAIN effects |->
                                 effects[j] + IF j \in cycle.wrote THEN 1 ELSE 0]
               /\ recent' = TRUE
               /\ cycle' = [IdleCycle EXCEPT !.ret = "stats"]
    /\ CycleFrame

\* lines 392-402: the run row gets its status, completed_at and stats and
\* the session commits.  In a failed transaction the flush of the run row
\* raises: the exception leaves the function, the session context rolls
\* back and the worker loop logs it (lines 413-416)
run_consolidation_cycle_finalize ==
    /\ cycle.pc = "finalize"
    /\ IF cycle.aborted
       THEN /\ cycle' = [IdleCycle EXCEPT !.ret = "raised"]
            /\ UNCHANGED <<trace, recent, run_rows, effects>>
       ELSE LET status == IF cycle.errors = <<>> THEN "completed" ELSE "partial"
            IN /\ run_rows' = Append(run_rows, [status |-> status,
                                                 stats_json |-> cycle.stats])
               /\ trace' = cycle.otrace @@ trace
               /\ effects' = [j \in DOMAIN effects |->
                                 effects[j] + IF j \in cycle.wrote THEN 1 ELSE 0]
               /\ recent' = (status = "completed")
               /\ cycle' = [IdleCycle EXCEPT !.ret = "stats"]
    /\ CycleFrame

\* lines 355-390: the cycle is interrupted after the run row was flushed
\* and before finalization (the tier query of line 361 raises, or the task
\* is cancelled while a job awaits, which `except Exception` does not
\* catch): the session context rolls back.  `wrote` and `otrace` keep, for
\* reference, the jobs that had written and what they had written
run_consolidation_cycle_cancel ==
    /\ cycle.pc = "jobs"
    /\ cycle' = [IdleCycle EXCEPT !.ret = "cancelled", !.wrote = cycle.wrote,
                                !.otrace = cycle.otrace]
    /\ UNCHANGED <<trace, recent, run_rows, effects>> /\ CycleFrame

NextCycle ==
    \/ run_consolidation_cycle_guard
    \/ run_consolidation_cycle_job
    \/ run_consolidation_cycle_finalize
    \/ run_consolidation_cycle_cancel
    \/ interval_elapses

SpecCycle == InitCycleRuns /\ [][NextCycle]_vars


\* ------------------------------------------------ worker/embedding_worker.py
\* run_worker 90: each worker process builds its service once, and the
\* service reads the credential at construction (embedding.py 24-35)
InitEmbedRuns ==
    /\ votes = {}
    /\ trace = [t \in Traces |-> NewTrace]
    /\ cdr = EmptyFn
    /\ rep = [u \in Users |-> 0]
    /\ tx = [s \in Sessions |-> IdleTx]
    /\ cons = IdleCons
    /\ runs = <<>>
    /\ recent = FALSE
    /\ serial = [t \in Traces |-> NewTrace]
    /\ accepted = [k \in Traces \X Users |-> 0]
    /\ response = [status |-> 0, dup_at_start |-> FALSE]
    /\ nreq = 0
    /\ wq = NoQuery
    /\ InitRate
    /\ InitCycle
    /\ embedding = [t \in EmbedTraces |-> NoEmbedding]
    /\ \E skip \in [Workers -> BOOLEAN] :
         worker = [w \in Workers |-> [IdleWorker EXCEPT !.skip = skip[w]]]
    /\ written = [t \in EmbedTraces |-> 0]
    /\ wcall = NoWilsonCall
    /\ InitLife

EmbedFrame == UNCHANGED <<votes, trace, cdr, rep, tx, cons, runs, recent, serial,
                          accepted, response, nreq, wq, RateVars, gate, CycleVars,
                          wcall, LifeVars>>

\* the rows a worker's open transaction holds locked: those its SELECT ...
\* FOR UPDATE returned, until it commits or rolls back
Held(w) == IF worker[w].pc = "idle" THEN {} ELSE Range(worker[w].batch)

\* orderings of a set of rows
Orderings(S) == {q \in [1..Cardinality(S) -> S] : Range(q) = S}

\* lines 31-41 for given candidate rows: LIMIT takes any BATCH_SIZE of them,
\* in any order; without rows the function returns 0
claim(w, rows) ==
    \E S \in SUBSET rows :
        /\ Cardinality(S) = Min(BATCH_SIZE, Cardinality(rows))
        /\ \E q \in Orderings(S) :
             worker' = [worker EXCEPT ![w] =
                 IF S = {}
                 THEN [IdleWorker EXCEPT !.kind = "empty",
                                         !.nbatch = worker[w].nbatch + 1,
                                         !.skip = worker[w].skip]
                 ELSE [IdleWorker EXCEPT !.pc = "embed", !.batch = q,
                                         !.nbatch = worker[w].nbatch + 1,
                                         !.skip = worker[w].skip]]

process_batch_claim_no_lock(w) ==
    /\ worker[w].pc = "idle"
    /\ worker[w].nbatch < MaxBatches
    /\ claim(w, {t \in EmbedTraces : embedding[t] = NoEmbedding})
    /\ UNCHANGED <<embedding, written>> /\ EmbedFrame

\* lines 31-41: the committed rows without an embedding that no other
\* transaction holds locked (FOR UPDATE SKIP LOCKED)
process_batch_claim(w) ==
    /\ worker[w].pc = "idle"
    /\ worker[w].nbatch < MaxBatches
    /\ claim(w, {t \in EmbedTraces :
                    /\ embedding[t] = NoEmbedding
                    /\ \A o \in Workers \ {w} : t \notin Held(o)})
    /\ UNCHANGED <<embedding, written>> /\ EmbedFrame

\* the worker's record when process_batch has returned or raised
returned(w, kind, ret) ==
    [worker[w] EXCEPT !.pc = "idle", !.i = 1, !.owrites = EmptyFn,
                      !.kind = kind, !.ret = ret]

\* lines 44-81 for the item at hand, given what embed did
embed_item(w, outcome) ==
    LET t == worker[w].batch[worker[w].i]
        last == worker[w].i = Len(worker[w].batch)
        next_pc == IF last THEN "commit" ELSE "embed"
    IN CASE outcome = "skipped" ->
              \* lines 49-55: return 0 without a commit
              [returned(w, "skipped", 0) EXCEPT !.calls = @ + 1]
         [] outcome = "failed" ->
              \* lines 56-64: continue
              [worker[w] EXCEPT !.pc = next_pc, !.i = @ + 1, !.calls = @ + 1,
                                !.failed = @ \cup {t}]
         [] OTHER ->
              \* lines 66-81: the UPDATE of the row, processed += 1
              [worker[w] EXCEPT !.pc = next_pc, !.i = @ + 1, !.calls = @ + 1,
                                !.processed = @ + 1,
                                !.owrites = (t :> [vector |-> t,
                                                   model_id |-> OPENAI_MODEL,
                                                   model_version |-> ResponseModel])
                                            @@ @]

process_batch_embed_skip_item(w) ==
    /\ worker[w].pc = "embed"
    /\ \E outcome \in (IF worker[w].skip THEN {"failed"} ELSE {"failed", "embedded"}) :
         worker' = [worker EXCEPT ![w] = embed_item(w, outcome)]
    /\ UNCHANGED <<embedding, written>> /\ EmbedFrame

process_batch_embed_stop_on_failure(w) ==
    /\ worker[w].pc = "embed"
    /\ \E outcome \in (IF worker[w].skip THEN {"skipped"} ELSE {"failed", "embedded"}) :
         worker' = [worker EXCEPT ![w] =
                       IF outcome = "failed"
                       THEN [embed_item(w, outcome) EXCEPT !.pc = "commit"]
                       ELSE embed_item(w, outcome)]
    /\ UNCHANGED <<embedding, written>> /\ EmbedFrame

\* lines 44-81, one turn of the loop: embed raises EmbeddingSkippedError
\* when the service has no credential (embedding.py 53-56), otherwise the
\* provider's call fails or returns a vector
process_batch_embed(w) ==
    /\ worker[w].pc = "embed"
    /\ \E outcome \in (IF worker[w].skip THEN {"skipped"} ELSE {"failed", "embedded"}) :
         worker' = [worker EXCEPT ![w] = embed_item(w, outcome)]
    /\ UNCHANGED <<embedding, written>> /\ EmbedFrame

\* lines 83-84: the commit makes the batch's UPDATEs visible and releases
\* the row locks; the function returns processed
process_batch_commit(w) ==
    /\ worker[w].pc = "commit"
    /\ embedding' = worker[w].owrites @@ embedding
    /\ written' = [t \in EmbedTraces |->
                      written[t] + IF t \in DOMAIN worker[w].owrites THEN 1 ELSE 0]
    /\ worker' = [worker EXCEPT ![w] = returned(w, "done", worker[w].processed)]
    /\ EmbedFrame

\* lines 79 and 83 failing on the storage side: the exception leaves
\* process_batch, the session context rolls back, run_worker logs it
\* (lines 112-118)
process_batch_raise(w) ==
    /\ \/ worker[w].pc = "commit"
       \/ worker[w].pc = "embed" /\ ~worker[w].skip
    /\ worker' = [worker EXCEPT ![w] = returned(w, "raised", 0)]
    /\ UNCHANGED <<embedding, written>> /\ EmbedFrame

NextEmbed ==
    \/ \E w \in Workers : process_batch_claim(w)
    \/ \E w \in Workers : process_batch_embed(w)
    \/ \E w \in Workers : process_batch_commit(w)
    \/ \E w \in Workers : process_batch_raise(w)

SpecEmbed == InitEmbedRuns /\ [][NextEmbed]_vars

\* ------------------------- services/trust.py 31-60 in binary64 arithmetic
\* Python's float is IEEE 754 binary64 and every operation of lines 51-60
\* rounds its exact result to nearest, ties to even.  The values met here
\* are far from overflow and from the subnormal range.  Natural numbers
\* beyond the integers of the checker are sequences of limbs.
LimbBits == 15
LimbBase == 2 ^ LimbBits
Precision == 53

Limb(a, i) == IF i <= Len(a) THEN a[i] ELSE 0
Zeros(k) == [i \in 1..k |-> 0]

RECURSIVE BNorm(_)
BNorm(a) ==
    IF a = <<>> THEN a
    ELSE IF a[Len(a)] = 0 THEN BNorm(SubSeq(a, 1, Len(a) - 1)) ELSE a

RECURSIVE BFromInt(_)
BFromInt(n) == IF n = 0 THEN <<>> ELSE <<n % LimbBase>> \o BFromInt(n \div LimbBase)

RECURSIVE BCmpFrom(_, _, _)
BCmpFrom(a, b, i) ==
    IF i = 0 THEN 0
    ELSE IF Limb(a, i) > Limb(b, i) THEN 1
    ELSE IF Limb(a, i) < Limb(b, i) THEN -1
    ELSE BCmpFrom(a, b, i - 1)

\* -1, 0 or 1 as a is below, equal to or above b
BCmp(a, b) == BCmpFrom(a, b, Max(Len(a), Len(b)))

RECURSIVE BAddFrom(_, _, _, _)
BAddFrom(a, b, i, c) ==
    IF i > Len(a) /\ i > Len(b) THEN (IF c = 0 THEN <<>> ELSE <<c>>)
    ELSE LET t == Limb(a, i) + Limb(b, i) + c
         IN <<t % LimbBase>> \o BAddFrom(a, b, i + 1, t \div LimbBase)

BAdd(a, b) == BAddFrom(a, b, 1, 0)

RECURSIVE BSubFrom(_, _, _, _)
BSubFrom(a, b, i, c) ==
    IF i > Len(a) THEN <<>>
    ELSE LET d == a[i] - Limb(b, i) - c
         IN <<IF d < 0 THEN d + LimbBase ELSE d>>
            \o BSubFrom(a, b, i + 1, IF d < 0 THEN 1 ELSE 0)

\* a - b for a >= b
BSub(a, b) == BNorm(BSubFrom(a, b, 1, 0))

RECURSIVE BMulLimbFrom(_, _, _, _)
BMulLimbFrom(a, d, i, c) ==
    IF i > Len(a) THEN (IF c = 0 THEN <<>> ELSE <<c>>)
    ELSE LET t == a[i] * d + c
         IN <<t % LimbBase>> \o BMulLimbFrom(a, d, i + 1, t \div LimbBase)

BMulLimb(a, d) == IF d = 0 \/ a = <<>> THEN <<>> ELSE BMulLimbFrom(a, d, 1, 0)

RECURSIVE BMulFrom(_, _, _)
BMulFrom(a, b, j) ==
    IF j > Len(b) THEN <<>>
    ELSE BAdd(IF b[j] = 0 THEN <<>> ELSE Zeros(j - 1) \o BMulLimb(a, b[j]),
              BMulFrom(a, b, j + 1))

BMul(a, b) == IF a = <<>> THEN <<>> ELSE BMulFrom(a, b, 1)

\* a * 2^k and floor(a / 2^k)
BShl(a, k) ==
    IF a = <<>> THEN <<>>
    ELSE Zeros(k \div LimbBits) \o BMulLimb(a, 2 ^ (k % LimbBits))

BShr(a, k) ==
    LET q == k \div LimbBits
        r == k % LimbBits
        b == IF q >= Len(a) THEN <<>> ELSE SubSeq(a, q + 1, Len(a))
    IN BNorm([i \in 1..Len(b) |->
                 (b[i] \div (2 ^ r)) + (Limb(b, i + 1) % (2 ^ r)) * (2 ^ (LimbBits - r))])

RECURSIVE IntBitLen(_)
IntBitLen(n) == IF n = 0 THEN 0 ELSE 1 + IntBitLen(n \div 2)

BBitLen(a) == IF a = <<>> THEN 0 ELSE (Len(a) - 1) * LimbBits + IntBitLen(a[Len(a)])
BBit(a, i) == (Limb(a, i \div LimbBits + 1) \div (2 ^ (i % LimbBits))) % 2
Pow2(k) == BShl(<<1>>, k)

\* the largest d < LimbBase with b * d <= r, bit by bit
RECURSIVE BDigit(_, _, _, _)
BDigit(r, b, i, d) ==
    IF i < 0 THEN d
    ELSE LET c == d + 2 ^ i
         IN IF BCmp(BMulLimb(b, c), r) <= 0 THEN BDigit(r, b, i - 1, c)
            ELSE BDigit(r, b, i - 1, d)

\* long division of the limbs i, i-1, ..., 1 of a by b, r being what the
\* limbs above i left: <<quotient limbs, remainder>>
RECURSIVE BDivFrom(_, _, _, _)
BDivFrom(a, b, i, r) ==
    IF i = 0 THEN <<<<>>, r>>
    ELSE LET cur == BNorm(<<a[i]>> \o r)
             d == BDigit(cur, b, LimbBits - 1, 0)
             with(rest) == <<Append(rest[1], d), rest[2]>>
         IN IF d = 0 THEN with(BDivFrom(a, b, i - 1, cur))
            ELSE with(BDivFrom(a, b, i - 1, BSub(cur, BMulLimb(b, d))))

\* <<floor(a / b), a mod b>> for b # 0
BDivMod(a, b) ==
    IF BCmp(a, b) < 0 THEN <<<<>>, a>>
    ELSE LET qr == BDivFrom(a, b, Len(a), <<>>) IN <<BNorm(qr[1]), qr[2]>>

\* floor of the square root: Newton's iteration from a power of two above it
RECURSIVE BSqrtFrom(_, _)
BSqrtFrom(n, x) ==
    LET y == BShr(BAdd(x, BDivMod(n, x)[1]), 1)
    IN IF BCmp(y, x) >= 0 THEN x ELSE BSqrtFrom(n, y)

BSqrt(n) == IF n = <<>> THEN <<>> ELSE BSqrtFrom(n, Pow2((BBitLen(n) + 1) \div 2))

\* the binary64 value nearest to (-1)^neg * M * 2^E, ties to even
F64Round(neg, M, E) ==
    IF M = <<>> THEN F64Zero
    ELSE LET L == BBitLen(M)
         IN IF L <= Precision
            THEN [neg |-> neg, m |-> BShl(M, Precision - L), e |-> E - (Precision - L)]
            ELSE LET sh == L - Precision
                     q == BShr(M, sh)
                     half == BBit(M, sh - 1) = 1
                     sticky == sh > 1 /\ BCmp(BShl(BShr(M, sh - 1), sh - 1), M) # 0
                     up == half /\ (sticky \/ BBit(q, 0) = 1)
                     q1 == IF up THEN BAdd(q, <<1>>) ELSE q
                 IN IF BBitLen(q1) > Precision
                    THEN [neg |-> neg, m |-> BShr(q1, 1), e |-> E + sh + 1]
                    ELSE [neg |-> neg, m |-> q1, e |-> E + sh]

\* float(n) of a small natural number
F64Int(n) == F64Round(FALSE, BFromInt(n), 0)

F64Neg(a) == IF a.m = <<>> THEN a ELSE [a EXCEPT !.neg = ~@]

F64Mul(a, b) ==
    IF a.m = <<>> \/ b.m = <<>> THEN F64Zero
    ELSE F64Round(a.neg # b.neg, BMul(a.m, b.m), a.e + b.e)

\* a / b for b # 0: the quotient to 56 bits and more, with one more bit
\* that tells whether a remainder was left
F64Div(a, b) ==
    IF a.m = <<>> THEN F64Zero
    ELSE LET qr == BDivMod(BShl(a.m, Precision + 3), b.m)
             M == BAdd(BShl(qr[1], 1), IF qr[2] = <<>> THEN <<>> ELSE <<1>>)
         IN F64Round(a.neg # b.neg, M, a.e - b.e - (Precision + 3) - 1)

\* math.sqrt(a) for a > 0, the same way
F64Sqrt(a) ==
    IF a.m = <<>> THEN F64Zero
    ELSE LET odd == a.e % 2 = 1
             N == BShl(a.m, 2 * 29 + (IF odd THEN 1 ELSE 0))
             E == (a.e - (IF odd THEN 1 ELSE 0)) \div 2 - 29
             root == BSqrt(N)
             M == BAdd(BShl(root, 1),
                       IF BCmp(BMul(root, root), N) = 0 THEN <<>> ELSE <<1>>)
         IN F64Round(FALSE, M, E - 1)

F64Add(a, b) ==
    IF a.m = <<>> THEN b
    ELSE IF b.m = <<>> THEN a
    ELSE LET e == Min(a.e, b.e)
             A == BShl(a.m, a.e - e)
             B == BShl(b.m, b.e - e)
             c == BCmp(A, B)
         IN IF a.neg = b.neg THEN F64Round(a.neg, BAdd(A, B), e)
            ELSE IF c = 0 THEN F64Zero
            ELSE IF c > 0 THEN F64Round(a.neg, BSub(A, B), e)
            ELSE F64Round(b.neg, BSub(B, A), e)

F64Sub(a, b) == F64Add(a, F64Neg(b))

\* a < b
F64Lt(a, b) ==
    LET d == F64Sub(a, b) IN d.m # <<>> /\ d.neg

F64Le(a, b) == ~F64Lt(b, a)

F64Abs(a) == [a EXCEPT !.neg = FALSE]

\* line 53: the literal 1.9600
z_score == F64Div(F64Int(196), F64Int(100))

\* the argument of math.sqrt, line 58
wilson_radicand(p_hat, z2, n) ==
    F64Div(F64Add(F64Mul(p_hat, F64Sub(F64Int(1), p_hat)),
                  F64Div(z2, F64Int(4 * n))),
           F64Int(n))

wilson_numerator_upper(p_hat, z, z2, n, root) ==
    F64Add(F64Add(p_hat, F64Div(z2, F64Int(2 * n))), F64Mul(z, root))

\* lines 57-59, given the square root
wilson_numerator(p_hat, z, z2, n, root) ==
    F64Sub(F64Add(p_hat, F64Div(z2, F64Int(2 * n))), F64Mul(z, root))

\* line 60
wilson_quotient(numerator, z2, n) ==
    F64Div(numerator, F64Add(F64Int(1), F64Div(z2, F64Int(n))))

\* the calls examined, alone or two in a row: every 0 <= upvotes <=
\* total_votes <= MaxTotal; the ratio 10 to 11 at two successive sample
\* sizes; one vote of one against 50 of 55
WilsonInputs ==
    {<<<<u, n>>>> : <<u, n>> \in {a \in (0..MaxTotal) \X (0..MaxTotal) : a[1] <= a[2]}}
        \cup {<<<<10 * k, 11 * k>>, <<10 * (k + 1), 11 * (k + 1)>>>> : k \in 1..MaxK}
        \cup {<<<<1, 1>>, <<50, 55>>>>}

InitWilson ==
    /\ votes = {}
    /\ trace = [t \in Traces |-> NewTrace]
    /\ cdr = EmptyFn
    /\ rep = [u \in Users |-> 0]
    /\ tx = [s \in Sessions |-> IdleTx]
    /\ cons = IdleCons
    /\ runs = <<>>
    /\ recent = FALSE
    /\ serial = [t \in Traces |-> NewTrace]
    /\ accepted = [k \in Traces \X Users |-> 0]
    /\ response = [status |-> 0, dup_at_start |-> FALSE]
    /\ nreq = 0
    /\ wq = NoQuery
    /\ InitRate
    /\ InitCycle
    /\ InitEmbed
    /\ \E calls \in WilsonInputs : wcall = [NoWilsonCall EXCEPT !.calls = calls]
    /\ InitLife

\* wilson_score_lower_bound, lines 51-60, for the call at hand; each step
\* keeps its values in the locals of the function
wilson_score_lower_bound_step ==
    /\ Len(wcall.results) < Len(wcall.calls)
    /\ LET upvotes == wcall.calls[Len(wcall.results) + 1][1]
           total_votes == wcall.calls[Len(wcall.results) + 1][2]
           return(v) == [NoWilsonCall EXCEPT !.calls = wcall.calls,
                                             !.results = Append(wcall.results, v)]
       IN CASE wcall.pc = "start" /\ total_votes = 0 ->
                 \* lines 51-52
                 wcall' = return(F64Zero)
            [] wcall.pc = "start" /\ total_votes # 0 ->
                 \* lines 53-56
                 wcall' = [wcall EXCEPT !.pc = "radicand",
                                        !.z = z_score,
                                        !.z2 = F64Mul(z_score, z_score),
                                        !.p_hat = F64Div(F64Int(upvotes),
                                                         F64Int(total_votes))]
            [] wcall.pc = "radicand" ->
                 wcall' = [wcall EXCEPT !.pc = "sqrt",
                                        !.radicand = wilson_radicand(
                                                         wcall.p_hat, wcall.z2, total_votes)]
            [] wcall.pc = "sqrt" ->
                 wcall' = [wcall EXCEPT !.pc = "numerator",
                                        !.root = F64Sqrt(wcall.radicand)]
            [] wcall.pc = "numerator" ->
                 wcall' = [wcall EXCEPT !.pc = "return",
                                        !.numerator = wilson_numerator(
                                                          wcall.p_hat, wcall.z, wcall.z2,
                                                          total_votes, wcall.root)]
            [] wcall.pc = "return" ->
                 wcall' = return(wilson_quotient(wcall.numerator, wcall.z2, total_votes))
    /\ UNCHANGED <<votes, trace, cdr, rep, tx, cons, runs, recent, serial, accepted,
                   response, nreq, wq, RateVars, gate, CycleVars, EmbedVars, LifeVars>>

NextWilson == wilson_score_lower_bound_step

SpecWilson == InitWilson /\ [][NextWilson]_vars

\* ------------- worker/consolidation_worker.py, consolidation_worker_loop
\* Time in seconds.  What a cycle's jobs and its commit take, and how late a
\* sleep ends, are drawn from these sets.
JobSeconds == {0, 3600, 90000}
CommitSeconds == {0, 1}
LateSeconds == {0, 1}

\* line 407
loop_interval == consolidation_interval_hours * 3600

LoopFrame == UNCHANGED <<votes, trace, cdr, rep, tx, cons, runs, recent, serial,
                         accepted, response, nreq, wq, RateVars, gate, CycleVars,
                         EmbedVars, wcall, cluster, sched>>

recent_run_exists_inclusive(completed, now) ==
    {c \in completed : c >= now - consolidation_interval_hours * 3600}

\* lines 343-350: the completed runs whose completed_at lies after the cutoff
recent_run_exists(completed, now) ==
    {c \in completed : c > now - consolidation_interval_hours * 3600}

\* lines 407-410: the initial delay
consolidation_worker_loop_start ==
    /\ loop.pc = "start"
    /\ \E late \in LateSeconds :
         loop' = [loop EXCEPT !.pc = "tick", !.now = @ + WarmupSeconds + late]
    /\ LoopFrame

\* lines 412-414 with 341-358: the call of run_consolidation_cycle and its
\* guard; scalar_one_or_none returns the one run found, returns None, or
\* raises when it finds several
consolidation_worker_loop_guard ==
    /\ loop.pc = "tick"
    /\ LET found == recent_run_exists(loop.completed, loop.now)
       IN loop' = IF found = {}
                  THEN [loop EXCEPT !.pc = "jobs", !.ticks = @ + 1]
                  ELSE [loop EXCEPT !.pc = "sleep", !.ticks = @ + 1,
                                    !.outcome = IF Cardinality(found) = 1
                                                THEN "skipped" ELSE "raised",
                                    !.returned_at = loop.now]
    /\ LoopFrame

\* lines 360-390: the tier query and the jobs take their time; an exception
\* of a job is caught in the cycle (line 386), one of the tier query
\* leaves the cycle and is caught by the loop (lines 415-416)
consolidation_worker_loop_jobs ==
    /\ loop.pc = "jobs"
    /\ \E d \in JobSeconds :
         \/ loop' = [loop EXCEPT !.pc = "finalize", !.now = @ + d]
         \/ loop' = [loop EXCEPT !.pc = "sleep", !.now = @ + d,
                                 !.outcome = "raised", !.returned_at = loop.now + d]
    /\ LoopFrame

\* lines 392-402: status and completed_at are set, then the commit, which
\* takes its time, stores the run or raises
consolidation_worker_loop_finalize ==
    /\ loop.pc = "finalize"
    /\ \E d \in CommitSeconds, status \in {"completed", "partial", "raised"} :
         loop' = [loop EXCEPT !.pc = "sleep", !.now = @ + d,
                              !.completed = IF status = "completed"
                                            THEN @ \cup {loop.now} ELSE @,
                              !.outcome = status, !.returned_at = loop.now + d]
    /\ LoopFrame

\* line 417: the sleep of one interval, whatever the call did
consolidation_worker_loop_sleep ==
    /\ loop.pc = "sleep"
    /\ loop.ticks < MaxTicksOfLoop
    /\ \E late \in LateSeconds :
         loop' = [loop EXCEPT !.pc = "tick", !.now = @ + loop_interval + late]
    /\ LoopFrame

NextLoop ==
    \/ consolidation_worker_loop_start
    \/ consolidation_worker_loop_guard
    \/ consolidation_worker_loop_jobs
    \/ consolidation_worker_loop_finalize
    \/ consolidation_worker_loop_sleep

SpecLoop == Init /\ [][NextLoop]_vars

\* ---- worker/consolidation_worker.py: the columns memory_temperature and
\* is_stale through one cycle
Temperatures == {"HOT", "WARM", "COOL", "COLD", "FROZEN"}

\* The stored traces when the cycle starts.  A trace is stale without being
\* FROZEN when its submission found it stale (routers/traces.py 63-65);
\* FROZEN is only ever written together with is_stale.  review_passed says
\* whether review_after is set and lies before the prospective job's now.
TempRows ==
    {[trust_score |-> v, confirmation_count |-> 0, status |-> "pending",
      is_flagged |-> FALSE, memory_temperature |-> m, is_stale |-> st,
      review_passed |-> due] :
        v \in {(-3000) * TrustUnit, 4000 * TrustUnit},
        m \in {"WARM", "FROZEN"}, st \in BOOLEAN, due \in BOOLEAN}
    \ {r \in [trust_score : Int, confirmation_count : {0}, status : {"pending"},
              is_flagged : {FALSE}, memory_temperature : {"FROZEN"},
              is_stale : {FALSE}, review_passed : BOOLEAN] : TRUE}

IdleTempCons == [pc |-> "idle", tier |-> "seed", otrace |-> EmptyFn,
                 new_temp |-> EmptyFn, updated |-> {}, returned |-> {}]

InitTemp ==
    /\ votes = {}
    /\ trace \in [Traces -> TempRows]
    /\ cdr = EmptyFn
    /\ rep = [u \in Users |-> 0]
    /\ tx = [s \in Sessions |-> IdleTx]
    /\ cons = IdleTempCons
    /\ runs = <<>>
    /\ recent = FALSE
    /\ serial = [t \in Traces |-> NewTrace]
    /\ accepted = [k \in Traces \X Users |-> 0]
    /\ response = [status |-> 0, dup_at_start |-> FALSE]
    /\ nreq = 0
    /\ wq = NoQuery
    /\ InitRate
    /\ InitCycle
    /\ InitEmbed
    /\ wcall = NoWilsonCall
    /\ InitLife

temperature_updates_every_row(rows, new_temp, S) ==
    [t \in S |->
        [rows[t] EXCEPT !.memory_temperature = new_temp[t],
                        !.is_stale = (new_temp[t] = "FROZEN")]]

\* lines 71-88 for the rows S the loop gets through: the UPDATE of each row
\* whose stored temperature differs from the one classify_temperature gave
temperature_updates(rows, new_temp, S) ==
    [t \in {r \in S : rows[r].memory_temperature # new_temp[r]} |->
        [rows[t] EXCEPT !.memory_temperature = new_temp[t],
                        !.is_stale = (new_temp[t] = "FROZEN")]]

\* lines 157-167: the rows the prospective UPDATE writes
check_prospective_memory(rows) ==
    [t \in {r \in DOMAIN rows : rows[r].review_passed /\ ~rows[r].is_stale} |->
        [rows[t] EXCEPT !.is_stale = TRUE, !.memory_temperature = "FROZEN"]]

\* lines 341-368: the guard, the run row, the tier and the decay job
run_cycle_trust_downscaling ==
    /\ cons.pc = "idle"
    /\ IF recent
       THEN cons' = IdleTempCons
       ELSE /\ Len(runs) < MaxCycles
            /\ \E tier \in MaturityTiers :
                 cons' = [IdleTempCons EXCEPT
                             !.pc = "temperature", !.tier = tier,
                             !.otrace = trust_downscaling(trace, get_decay_multiplier(tier)),
                             !.returned = {"trust_downscaled"}]
    /\ UNCHANGED <<trace, runs, recent, serial>> /\ ConsUnchanged

\* lines 369 and 50-102, caught at 386-390: classify_temperature gives each
\* row a temperature; the loop updates the rows that differ; then the
\* flagging UPDATE runs and the job returns.  Or classify_temperature raises
\* at some row: the rows updated before it stay updated in the session, the
\* flagging UPDATE is not reached and the cycle records the job as failed
run_cycle_compute_temperatures ==
    /\ cons.pc = "temperature"
    /\ \E new_temp \in [Traces -> Temperatures], S \in SUBSET Traces :
         LET view == cons.otrace @@ trace
             writes == temperature_updates(view, new_temp, S)
             flagged == compute_temperatures(writes @@ view)
         IN cons' = IF S = Traces
                    THEN [cons EXCEPT !.pc = "prospective", !.new_temp = new_temp,
                                      !.updated = DOMAIN writes,
                                      !.otrace = flagged @@ writes @@ @,
                                      !.returned = @ \cup {"temperature_computation"}]
                    ELSE [cons EXCEPT !.pc = "prospective", !.new_temp = new_temp,
                                      !.updated = DOMAIN writes,
                                      !.otrace = writes @@ @]
    /\ UNCHANGED <<trace, runs, recent, serial>> /\ ConsUnchanged

\* lines 370-373: the jobs between write no column of this state; then the
\* prospective job's UPDATE
run_cycle_check_prospective_memory ==
    /\ cons.pc = "prospective"
    /\ cons' = [cons EXCEPT !.pc = "commit",
                            !.otrace = check_prospective_memory(cons.otrace @@ trace) @@ @,
                            !.returned = @ \cup {"prospective_staled"}]
    /\ UNCHANGED <<trace, runs, recent, serial>> /\ ConsUnchanged

\* lines 392-395: the run's status and the commit
run_cycle_commit ==
    /\ cons.pc = "commit"
    /\ trace' = cons.otrace @@ trace
    /\ runs' = Append(runs, IF "temperature_computation" \in cons.returned
                            THEN "completed" ELSE "partial")
    /\ recent' = ("temperature_computation" \in cons.returned)
    /\ cons' = [cons EXCEPT !.pc = "idle", !.otrace = EmptyFn]
    /\ UNCHANGED serial /\ ConsUnchanged

\* a statement of some job fails, the transaction with it, and the commit
\* raises (or the task is cancelled): the session context rolls back
run_cycle_rollback ==
    /\ cons.pc \notin {"idle", "commit"}
    /\ cons' = IdleTempCons
    /\ UNCHANGED <<trace, runs, recent, serial>> /\ ConsUnchanged

NextTemp ==
    \/ run_cycle_trust_downscaling
    \/ run_cycle_compute_temperatures
    \/ run_cycle_check_prospective_memory
    \/ run_cycle_commit
    \/ run_cycle_rollback

SpecTemp == InitTemp /\ [][NextTemp]_vars

\* ------------ worker/consolidation_worker.py, _narrative_synthesis in the
\* cycles of the schedulers
\* The stored clusters: one trace short of the threshold or at it, with or
\* without a pattern trace
ClusterRows == [episodic : {MinClusterSize - 1, MinClusterSize}, patterns : {0, 1}]

InitSynth ==
    /\ votes = {}
    /\ trace = [t \in Traces |-> NewTrace]
    /\ cdr = EmptyFn
    /\ rep = [u \in Users |-> 0]
    /\ tx = [s \in Sessions |-> IdleTx]
    /\ cons = IdleCons
    /\ runs = <<>>
    /\ recent = FALSE
    /\ serial = [t \in Traces |-> NewTrace]
    /\ accepted = [k \in Traces \X Users |-> 0]
    /\ response = [status |-> 0, dup_at_start |-> FALSE]
    /\ nreq = 0
    /\ wq = NoQuery
    /\ InitRate
    /\ InitCycle
    /\ InitEmbed
    /\ wcall = NoWilsonCall
    /\ cluster \in [Clusters -> ClusterRows]
    /\ \E skip \in [Schedulers -> BOOLEAN] :
         sched = [p \in Schedulers |-> [IdleSched EXCEPT !.skip = skip[p]]]
    /\ loop = IdleLoop

SynthFrame == UNCHANGED <<votes, trace, cdr, rep, tx, cons, runs, recent, serial,
                          accepted, response, nreq, wq, RateVars, gate, CycleVars,
                          EmbedVars, wcall, loop>>

\* a trace joins a cluster, or one of its traces is flagged
cluster_membership_changes(c) ==
    /\ \E n \in {MinClusterSize - 1, MinClusterSize} :
         /\ n # cluster[c].episodic
         /\ cluster' = [cluster EXCEPT ![c].episodic = n]
    /\ UNCHANGED sched /\ SynthFrame

\* lines 341-378 and 188-208: a cycle passes its guard (runs still at work
\* do not count), its jobs before the synthesis return or raise, and in the
\* growing and mature tiers the synthesis job starts: the service is built,
\* the candidate query returns the clusters of at least five non-flagged
\* episodic traces, in any order, and the loop takes the first
\* narrative_max_clusters_per_cycle of them
narrative_synthesis_begin(p, tiers) ==
    /\ sched[p].pc = "idle"
    /\ \E tier \in tiers, others_failed \in BOOLEAN :
         LET fresh == [IdleSched EXCEPT !.skip = sched[p].skip,
                                        !.others_failed = others_failed]
             rows == {c \in Clusters : cluster[c].episodic >= MinClusterSize}
         IN IF tier \notin {"growing", "mature"}
            THEN sched' = [sched EXCEPT ![p] = [fresh EXCEPT !.pc = "commit"]]
            ELSE \E q \in Orderings(rows) :
                   sched' = [sched EXCEPT ![p] =
                      [fresh EXCEPT
                          !.pc = IF q = <<>> THEN "commit" ELSE "synth",
                          !.candidates =
                              SubSeq(q, 1, Min(Len(q), narrative_max_clusters_per_cycle))]]
    /\ UNCHANGED cluster /\ SynthFrame

narrative_synthesis_item_skip_raises(s, c, outcome) ==
    LET rest == Tail(s.candidates)
        next_pc == IF rest = <<>> THEN "commit" ELSE "synth"
        continue == [s EXCEPT !.candidates = rest, !.pc = next_pc]
    IN IF cluster[c].patterns > 0 \/ c \in s.created THEN continue
       ELSE IF cluster[c].episodic < MinClusterSize THEN continue
       ELSE CASE outcome = "skipped" ->
                   [s EXCEPT !.pc = "commit", !.candidates = <<>>, !.stopped = TRUE,
                             !.stats = [error |-> TRUE, value |-> 0]]
              [] outcome = "failed" -> continue
              [] OTHER ->
                   [continue EXCEPT !.created = @ \cup {c},
                                    !.stats = [error |-> FALSE,
                                               value |-> s.stats.value + 1]]

\* lines 208-322 for the candidate c at hand, given what synthesize_cluster
\* did: a cluster with a pattern trace (a committed one or this session's
\* own) is passed over, so is one that has fewer than five source traces
\* by now; NarrativeSkippedError ends the job with the count so far (252-254),
\* another exception goes on to the next candidate (255-261), a synthesis
\* adds the pattern trace to the session (264-282, 322)
narrative_synthesis_item(s, c, outcome) ==
    LET rest == Tail(s.candidates)
        next_pc == IF rest = <<>> THEN "commit" ELSE "synth"
        continue == [s EXCEPT !.candidates = rest, !.pc = next_pc]
    IN IF cluster[c].patterns > 0 \/ c \in s.created THEN continue
       ELSE IF cluster[c].episodic < MinClusterSize THEN continue
       ELSE CASE outcome = "skipped" ->
                   [s EXCEPT !.pc = "commit", !.candidates = <<>>, !.stopped = TRUE]
              [] outcome = "failed" -> continue
              [] OTHER ->
                   [continue EXCEPT !.created = @ \cup {c},
                                    !.stats = [error |-> FALSE,
                                               value |-> s.stats.value + 1]]

\* one turn of the loop of line 208; a service built without a credential
\* raises NarrativeSkippedError at every call (narrative.py 28, 59-60)
narrative_synthesis_cluster(p, outcomes) ==
    /\ sched[p].pc = "synth"
    /\ \E outcome \in (IF sched[p].skip THEN {"skipped"} ELSE outcomes) :
         sched' = [sched EXCEPT ![p] =
                      narrative_synthesis_item(sched[p], Head(sched[p].candidates), outcome)]
    /\ UNCHANGED cluster /\ SynthFrame

\* lines 330-331, 383-395: the job returns its count into stats, the run
\* gets its status and the session commits, the pattern traces with it
narrative_synthesis_commit(p) ==
    /\ sched[p].pc = "commit"
    /\ cluster' = [c \in Clusters |->
                      IF c \in sched[p].created
                      THEN [cluster[c] EXCEPT !.patterns = @ + 1]
                      ELSE cluster[c]]
    /\ sched' = [sched EXCEPT ![p] =
                    [@ EXCEPT !.pc = "idle", !.created = {},
                              !.status = IF sched[p].others_failed \/ sched[p].stats.error
                                         THEN "partial" ELSE "completed"]]
    /\ SynthFrame

\* the cycle raises or is cancelled before its commit: the session rolls back
narrative_synthesis_rollback(p) ==
    /\ sched[p].pc \in {"synth", "commit"}
    /\ sched' = [sched EXCEPT ![p] = [IdleSched EXCEPT !.skip = sched[p].skip,
                                                       !.status = "raised"]]
    /\ UNCHANGED cluster /\ SynthFrame

NextSynth ==
    \/ \E c \in Clusters : cluster_membership_changes(c)
    \/ \E p \in Schedulers : narrative_synthesis_begin(p, MaturityTiers)
    \/ \E p \in Schedulers : narrative_synthesis_cluster(p, {"failed", "synthesized"})
    \/ \E p \in Schedulers : narrative_synthesis_commit(p)
    \/ \E p \in Schedulers : narrative_synthesis_rollback(p)

SpecSynth == InitSynth /\ [][NextSynth]_vars

\* The worker loop of one scheduler whose synthesis service has its
\* credential, in the mature tier, every call of the service succeeding and
\* every cycle reaching its commit.  The loop starts a cycle every interval
\* (lines 412-417) and each step of a cycle ends: weak fairness of the
\* three steps.
InitSynthLive ==
    /\ InitSynth
    /\ \A p \in Schedulers : ~sched[p].skip

NextSynthLive ==
    \/ \E c \in Clusters : cluster_membership_changes(c)
    \/ narrative_synthesis_begin(1, {"mature"})
    \/ narrative_synthesis_cluster(1, {"synthesized"})
    \/ narrative_synthesis_commit(1)

SpecSynthLive ==
    /\ InitSynthLive
    /\ [][NextSynthLive]_vars
    /\ WF_vars(narrative_synthesis_begin(1, {"mature"}))
    /\ WF_vars(narrative_synthesis_cluster(1, {"synthesized"}))
    /\ WF_vars(narrative_synthesis_commit(1))

\* ================================================================== claims
VotesOn(t) == {v \in votes : v.trace = t}

RECURSIVE AcceptedSum(_, _)
AcceptedSum(t, us) ==
    IF us = {} THEN 0
    ELSE LET u == CHOOSE x \in us : TRUE
         IN accepted[<<t, u>>] + AcceptedSum(t, us \ {u})

PastPromote(s) == tx[s].pc \in {"upsert", "aggregate", "user", "commit"}

\* C1: under every interleaving of votes by distinct voters and decay runs,
\* confirmation_count is the number of accepted votes and trust_score is what
\* the committed votes and decays give when applied one after another: no
\* delta is lost or overwritten.
C1_NoLostUpdate ==
    \A t \in Traces :
        /\ trace[t].confirmation_count = AcceptedSum(t, Users)
        /\ trace[t].trust_score = serial[t].trust_score

\* an up-vote, then a committed decay by 1/2, then a second up-vote on one trace
C1_Witness ==
    \E t \in Traces :
        /\ runs # <<>>
        /\ trace[t].confirmation_count = 2
        /\ trace[t].trust_score =
               trust_decay(BASE_WEIGHT * TrustUnit, 2) + BASE_WEIGHT * TrustUnit

\* C2: a request of a voter whose vote on the trace is already committed never
\* gets past the INSERT: it is answered 409 (500 when the storage fails) and
\* votes, traces and reputation stay as the first vote left them.
C2_DuplicateRejected ==
    [][\A s \in Sessions :
          (tx[s].pc = "flush" /\ tx[s].dup_at_start /\ tx'[s] # tx[s]) =>
              /\ tx'[s] = IdleTx
              /\ response'.status \in {409, 500}
              /\ response'.dup_at_start
              /\ UNCHANGED <<votes, trace, cdr, rep, serial, accepted>>]_vars

C2_Witness ==
    /\ response = [status |-> 409, dup_at_start |-> TRUE]
    /\ Cardinality(votes) = 1
    /\ \E t \in Traces : trace[t].confirmation_count = 1 /\ trace[t].trust_score # 0
    /\ \A s \in Sessions : tx[s].pc = "idle"

\* C3: of requests by one voter on one trace that race, at most one holds the
\* vote row and at most one is answered 201; the trace counts one vote per
\* voter, and no request proceeds past the INSERT once the vote is committed.
C3_RaceOneAccepted ==
    /\ \A k \in Traces \X Users : accepted[k] <= 1
    /\ \A s1, s2 \in Sessions :
          (s1 # s2 /\ tx[s1].inserted /\ tx[s2].inserted) => VoteKey(s1) # VoteKey(s2)
    /\ \A s \in Sessions : tx[s].inserted => ~HasVote(tx[s].trace, tx[s].voter)
    /\ \A t \in Traces :
          trace[t].confirmation_count =
              Cardinality({u \in Users : accepted[<<t, u>>] >= 1})

\* a 409 sent to a request that arrived before the vote it lost to was committed
C3_Witness ==
    /\ response = [status |-> 409, dup_at_start |-> FALSE]
    /\ Cardinality(votes) = 1
    /\ \E t \in Traces : trace[t].confirmation_count = 1

\* C4: status only moves from pending to validated, in committed rows and in
\* every transaction's uncommitted rows, and the promotion check leaves a
\* validated row as it is.
C4_StatusMonotonic ==
    /\ [][\A t \in Traces :
             trace[t].status = "validated" => trace'[t].status = "validated"]_vars
    /\ [](\A t \in Traces : trace[t].status = "validated" =>
             /\ apply_vote_promote(trace[t], trace[t]) = trace[t]
             /\ ConsTraceView(t).status = "validated"
             /\ \A s \in Sessions : TraceView(s, t).status = "validated")

\* a validated trace that down-votes took to zero or below, after a cycle ran
C4_Witness ==
    \E t \in Traces :
        /\ trace[t].status = "validated"
        /\ trace[t].trust_score <= 0
        /\ runs # <<>>

\* C5: once a vote's delta and promotion check have run, the row counts one
\* more vote, its trust moved by the signed weight, and a row that was pending
\* is validated exactly when its count reached the threshold and its trust is
\* strictly positive.
C5_PromotionIff ==
    \A s \in Sessions : PastPromote(s) =>
        LET before == trace[tx[s].trace]
            after == tx[s].otrace[tx[s].trace]
            delta == IF tx[s].vote_type = "up" THEN tx[s].vote_weight
                     ELSE 0 - tx[s].vote_weight
        IN /\ after.confirmation_count = before.confirmation_count + 1
           /\ after.trust_score = before.trust_score + delta * TrustUnit
           /\ before.status = "pending" =>
                 (after.status = "validated" <=>
                     (after.confirmation_count >= validation_threshold
                      /\ after.trust_score > 0))

\* a vote about to commit that promoted its trace
C5_Witness ==
    \E s \in Sessions :
        /\ tx[s].pc = "commit"
        /\ trace[tx[s].trace].status = "pending"
        /\ tx[s].otrace[tx[s].trace].status = "validated"

\* C6: whatever the interleaving of votes and decay, a trace's status is the
\* status obtained by applying the committed votes one after another, in the
\* order they committed.
C6_SerialStatus ==
    \A t \in Traces : trace[t].status = serial[t].status

\* two votes on one trace in flight together while the decay job holds rows,
\* on a trace one more vote can promote
C6_Witness ==
    \E s1, s2 \in Sessions :
        /\ s1 # s2
        /\ tx[s1].trace = tx[s2].trace
        /\ tx[s1].pc = "promote"
        /\ tx[s2].pc = "update"
        /\ tx[s1].otrace[tx[s1].trace].confirmation_count >= validation_threshold
        /\ cons.pc = "jobs"

C9_AggregateOfSum ==
    \A u \in Users : rep[u] = overall_wilson(cdr, u)

\* C10: the weight is never below BASE_WEIGHT; without tags it is the larger
\* of BASE_WEIGHT and the voter's aggregate score, with tags the larger of
\* BASE_WEIGHT and the highest wilson_score among the voter's rows whose tag is
\* on the trace, and BASE_WEIGHT when no row matches.
C10_WeightRule ==
    wq.done =>
        LET matching == {k \in DOMAIN wq.rows :
                            k[1] = QueryVoter /\ \E i \in DOMAIN wq.trace_tags :
                                                    wq.trace_tags[i] = k[2]}
        IN /\ wq.weight >= BASE_WEIGHT
           /\ wq.trace_tags = <<>> =>
                 wq.weight = (IF wq.score > BASE_WEIGHT THEN wq.score ELSE BASE_WEIGHT)
           /\ (wq.trace_tags # <<>> /\ matching = {}) => wq.weight = BASE_WEIGHT
           /\ (wq.trace_tags # <<>> /\ matching # {}) =>
                 /\ \A k \in matching : wq.weight >= wq.rows[k].wilson_score
                 /\ \/ wq.weight = BASE_WEIGHT
                    \/ \E k \in matching : wq.weight = wq.rows[k].wilson_score

\* two matching rows, the better one above the floor and the other below it
C10_Witness ==
    /\ wq.done
    /\ Len(wq.trace_tags) = 2
    /\ \E k1, k2 \in DOMAIN wq.rows :
          /\ k1[1] = QueryVoter /\ k2[1] = QueryVoter /\ k1 # k2
          /\ wq.rows[k1].wilson_score > BASE_WEIGHT
          /\ wq.rows[k2].wilson_score < BASE_WEIGHT
          /\ wq.weight = wq.rows[k1].wilson_score

Capacity(k) == max_tokens_for(k[2]) * TokenUnit

Evaluated(p) == call[p].pc = "eval" /\ call'[p].pc = "idle"

\* C11: whatever the order in which stamped calls reach the store, a stored
\* token count is never negative and never above the capacity of its class.
C11_TokensInRange ==
    \A k \in Keys :
        bucket[k].present => (bucket[k].tokens >= 0 /\ bucket[k].tokens <= Capacity(k))

\* C12: of the calls that follow the creation of a bucket and carry the
\* timestamp of its creation, the first capacity-many are allowed and every
\* later one is denied, answered 429 with Retry-After 60.
C12_BurstFromEmpty ==
    \A k \in Keys :
        (grp[k].n > 0 /\ grp[k].fresh) =>
            /\ grp[k].ok = Min(grp[k].n, max_tokens_for(k[2]))
            /\ (result.key = k /\ result.now = grp[k].t) =>
                  /\ result.allowed <=> grp[k].n <= max_tokens_for(k[2])
                  /\ ~result.allowed =>
                        (result.status = 429 /\ result.retry_after = 60)

\* a full write bucket emptied by consecutive calls, and the call after them
C12_Witness ==
    \E u \in RateUsers :
        LET k == bucket_key(u, "write")
        IN /\ grp[k].fresh /\ ~grp[k].overlap
           /\ grp[k].n = rate_limit_write_per_minute + 1
           /\ grp[k].ok = rate_limit_write_per_minute
           /\ result = [key |-> k, now |-> grp[k].t, allowed |-> FALSE,
                        status |-> 429, retry_after |-> 60]

\* C13: a call for (subject, class) changes the bucket of that pair and no
\* other, and a denial means that pair's own bucket holds less than a token.
C13_OwnBucketOnly ==
    [][\A p \in Callers : Evaluated(p) =>
          LET own == <<call[p].user, call[p].bucket_type>>
          IN /\ \A k \in Keys \ {own} : bucket'[k] = bucket[k]
             /\ bucket'[own].present
             /\ ~result'.allowed => bucket'[own].tokens < TokenUnit]_vars

\* one subject's write bucket is empty and was just refused, while another
\* subject's write call at that moment is allowed
C13_Witness ==
    \E u1, u2 \in RateUsers :
        /\ u1 # u2
        /\ grp[bucket_key(u1, "write")].n > grp[bucket_key(u1, "write")].ok
        /\ bucket[bucket_key(u1, "write")].present
        /\ bucket[bucket_key(u1, "write")].tokens < TokenUnit
        /\ result.key = bucket_key(u2, "write")
        /\ result.allowed
        /\ result.now = grp[bucket_key(u1, "write")].t

\* C14: of n calls on one key that carry one timestamp, issued one after
\* another or in flight together, against a bucket that holds k tokens at
\* that instant, min(n, floor(k)) are allowed (none below one token).
C14_OneTokenEach ==
    \A k \in Keys :
        grp[k].n > 0 =>
            grp[k].ok = IF grp[k].start < TokenUnit THEN 0
                        ELSE Min(grp[k].n, grp[k].start \div TokenUnit)

\* two calls in flight together on a bucket with tokens for only one of them
C14_Witness ==
    \E k \in Keys :
        /\ grp[k].overlap /\ ~grp[k].fresh
        /\ grp[k].start >= TokenUnit /\ grp[k].start < 2 * TokenUnit
        /\ grp[k].n = 2 /\ grp[k].ok = 1

\* C15: a denied call stores min(capacity, previous tokens + elapsed * rate),
\* and so leaves the token count no lower than it found it.
C15_DenialConsumesNothing ==
    [][\A p \in Callers : (Evaluated(p) /\ ~result'.allowed) =>
          LET k == call[p].key
              data == bucket_get(k)
              previous == IF data.present THEN data.tokens
                          ELSE call[p].max_tokens * TokenUnit
              elapsed == IF data.present THEN call[p].now - data.last_refill ELSE 0
          IN /\ bucket'[k].tokens =
                    Min(call[p].max_tokens * TokenUnit,
                        previous + elapsed * call[p].refill_rate)
             /\ bucket'[k].tokens >= previous]_vars

C17_DeniedVoteStops ==
    /\ [](\A s \in Sessions : tx[s].pc # "idle" => gate[s] = "allowed")
    /\ [][\A s \in Sessions : (gate'[s] = "denied" /\ gate[s] # "denied") =>
             /\ response'.status = 429
             /\ tx'[s] = IdleTx
             /\ UNCHANGED <<votes, trace, cdr, rep, serial, accepted>>]_vars
    /\ [][(votes' # votes \/ trace' # trace \/ cdr' # cdr \/ rep' # rep) =>
             \E s \in Sessions :
                 gate[s] = "allowed" /\ tx[s].pc = "commit" /\ tx'[s] = IdleTx]_vars

\* a voter's third request on the write class is refused after two votes of
\* that voter were stored
C17_Witness ==
    /\ \E s \in Sessions : gate[s] = "denied" /\ tx[s].pc = "idle"
    /\ response.status = 429
    /\ Cardinality(votes) = rate_limit_write_per_minute

\* the run record a finished cycle has just committed
LastRun == run_rows[Len(run_rows)]
Finalized == cycle.pc = "finalize" /\ cycle'.pc = "idle"

\* C18: a consolidation cycle invoked while a completed run lies within the
\* interval returns at the guard: it starts no job, changes no trace and
\* adds no run record; so no cycle is ever at work while such a run exists.
C18_RecentRunSkips ==
    /\ [](recent => \E i \in 1..Len(run_rows) : run_rows[i].status = "completed")
    /\ [](cycle.pc # "idle" => ~recent)
    /\ [][(cycle.pc = "idle" /\ recent /\ cycle' # cycle) =>
             /\ cycle'.pc = "idle"
             /\ cycle'.ret = "skipped"
             /\ UNCHANGED <<trace, recent, run_rows, effects>>]_vars

\* the worker was invoked again after a completed cycle and sent away
C18_Witness ==
    /\ cycle.ret = "skipped"
    /\ recent
    /\ Len(run_rows) = 1
    /\ LastRun.status = "completed"

\* C19: when a job raised, the cycle still went through every listed job,
\* its run record holds "error" for each failed job and the result of each
\* job that succeeded, and the writes of the succeeded jobs are committed.
C19_FaultIsolation ==
    [][(Finalized /\ cycle.errors # <<>>) =>
         /\ \A j \in Range(JobsFor(cycle.tier)) :
                j \in cycle.wrote \/ j \in Range(cycle.errors)
         /\ Len(run_rows') = Len(run_rows) + 1
         /\ \A j \in Range(cycle.errors) : LastRun'.stats_json[j] = JobError
         /\ \A k \in DOMAIN cycle.stats : LastRun'.stats_json[k] = cycle.stats[k]
         /\ trace' = cycle.otrace @@ trace
         /\ \A j \in cycle.wrote : effects'[j] = effects[j] + 1]_vars

\* C20: a cycle that got to its finalization leaves a run record: completed
\* when no job raised, partial otherwise, carrying the tier, the stats of
\* each job and, as the keys whose value is "error", the jobs that failed.
C20_FinalStatus ==
    [][Finalized =>
         /\ Len(run_rows') = Len(run_rows) + 1
         /\ LastRun'.status = (IF cycle.errors = <<>> THEN "completed" ELSE "partial")
         /\ LastRun'.stats_json = cycle.stats
         /\ LastRun'.stats_json["maturity_tier"] = JobResult(cycle.tier)
         /\ {k \in DOMAIN LastRun'.stats_json : LastRun'.stats_json[k].error}
                = Range(cycle.errors)]_vars

\* C28: in every committed state, whatever the interleaving of votes and
\* decay runs, no trace is pending with a confirmation count at or above
\* the threshold and a positive trust score.
C28_NoEligiblePending ==
    \A t \in Traces :
        ~(/\ trace[t].status = "pending"
          /\ trace[t].confirmation_count >= validation_threshold
          /\ trace[t].trust_score > 0)

\* a decay run has committed and a trace that a vote made eligible stands
\* validated, its trust still positive
C28_Witness ==
    /\ runs # <<>>
    /\ \E t \in Traces :
          /\ trace[t].status = "validated"
          /\ trace[t].confirmation_count >= validation_threshold
          /\ trace[t].trust_score > 0

\* C29: the run record and the writes of a cycle's jobs are committed
\* together by the cycle's one commit: no committed run is "running",
\* traces, job effects and run records change only in a finalization that
\* adds the run record, and a cycle that ends by an exception leaves all
\* three as they were.
C29_OneCommit ==
    /\ [](\A i \in 1..Len(run_rows) : run_rows[i].status \in {"completed", "partial"})
    /\ [][(trace' # trace \/ effects' # effects \/ run_rows' # run_rows) =>
             /\ Finalized
             /\ run_rows' = Append(run_rows, LastRun')
             /\ trace' = cycle.otrace @@ trace
             /\ \A j \in DOMAIN effects :
                    effects'[j] = effects[j] + IF j \in cycle.wrote THEN 1 ELSE 0]_vars
    /\ [][(cycle.pc # "idle" /\ cycle'.ret \in {"raised", "cancelled"}) =>
             UNCHANGED <<trace, effects, run_rows>>]_vars

\* a cycle was interrupted after its jobs had written trace rows: the
\* committed rows are not the written ones, and no run record and no job
\* effect is committed
C29_Witness ==
    /\ cycle.ret = "cancelled"
    /\ cycle.otrace # EmptyFn
    /\ \A t \in DOMAIN cycle.otrace : trace[t] # cycle.otrace[t]
    /\ run_rows = <<>>
    /\ \A j \in DOMAIN effects : effects[j] = 0

\* C30 as stated: in a cycle of the seed or the growing tier the synthesis
\* job is neither listed nor run.
C30_SynthesisMatureOnly ==
    (cycle.pc # "idle" /\ cycle.tier # "mature") =>
        "patterns_synthesized" \notin
            (Range(cycle.jobs) \cup cycle.wrote \cup Range(cycle.errors))

\* C30, amended: in a cycle of the seed tier the synthesis job is neither
\* listed nor run, and pattern traces are committed only by cycles of the
\* growing and mature tiers.
C30_SynthesisNotInSeed ==
    /\ []((cycle.pc # "idle" /\ cycle.tier = "seed") =>
             "patterns_synthesized" \notin
                 (Range(cycle.jobs) \cup cycle.wrote \cup Range(cycle.errors)))
    /\ [][effects'["patterns_synthesized"] # effects["patterns_synthesized"] =>
             cycle.tier \in {"growing", "mature"}]_vars

\* a seed cycle at its finalization: its five jobs ran, synthesis did not
C30_Witness ==
    /\ cycle.pc = "finalize"
    /\ cycle.tier = "seed"
    /\ cycle.wrote = Range(JobsFor("seed"))
    /\ "patterns_synthesized" \notin cycle.wrote

\* the step by which worker w ends a batch, and the rows no transaction holds
BatchEnds(w) == worker[w].pc # "idle" /\ worker'[w].pc = "idle"
Claimable(t) == embedding[t] = NoEmbedding /\ \A w \in Workers : t \notin Held(w)

\* C21: with several embedding workers at work, no trace is held by two of
\* them at once, a trace's embedding is written by at most one batch, a
\* held trace has no embedding yet, and a stored embedding is the vector of
\* that trace.
C21_NoDoubleProcessing ==
    /\ \A w1, w2 \in Workers : w1 # w2 => Held(w1) \cap Held(w2) = {}
    /\ \A t \in EmbedTraces : written[t] <= 1
    /\ \A w \in Workers : \A t \in Held(w) : embedding[t] = NoEmbedding
    /\ \A t \in EmbedTraces : embedding[t] # NoEmbedding => embedding[t].vector = t

\* one trace is embedded and the two workers each hold another one
C21_Witness ==
    /\ \E t \in EmbedTraces : written[t] = 1
    /\ \A w \in Workers : worker[w].pc = "embed" /\ Held(w) # {}
    /\ \A w \in Workers : \A t \in Held(w) : written[t] = 0

\* C22: when the service has no credential the first embed call of a batch
\* ends process_batch: it returns 0, has called embed once, has committed
\* no embedding, and leaves every claimed trace without embedding and free
\* to be claimed.
C22_SkipAbandonsBatch ==
    [][\A w \in Workers :
          (worker[w].pc = "embed" /\ worker[w].skip /\ worker'[w] # worker[w]) =>
             /\ worker'[w].pc = "idle"
             /\ worker'[w].kind = "skipped"
             /\ worker'[w].ret = 0
             /\ worker'[w].calls = 1
             /\ UNCHANGED <<embedding, written>>
             /\ \A t \in Range(worker[w].batch) : Claimable(t)']_vars

\* a worker without credential gave up a batch of BATCH_SIZE traces, which
\* nobody has embedded
C22_Witness ==
    \E w \in Workers :
        /\ worker[w].pc = "idle"
        /\ worker[w].kind = "skipped"
        /\ Len(worker[w].batch) = BATCH_SIZE
        /\ \A t \in Range(worker[w].batch) : Claimable(t)

\* C23: a batch in which embed failed for some trace still goes through all
\* its traces; a failed trace has no embedding after the commit and is free
\* to be claimed; the count returned is the number of traces that got their
\* vector and model identity by this commit.
C23_ItemFailureIsolated ==
    [][\A w \in Workers :
          (BatchEnds(w) /\ worker'[w].kind = "done") =>
             /\ worker[w].calls = Len(worker[w].batch)
             /\ \A t \in worker[w].failed : Claimable(t)'
             /\ worker'[w].ret =
                   Cardinality({t \in Range(worker[w].batch) :
                                   /\ embedding[t] = NoEmbedding
                                   /\ embedding'[t] =
                                         [vector |-> t, model_id |-> OPENAI_MODEL,
                                          model_version |-> ResponseModel]})
             /\ worker'[w].ret = Len(worker[w].batch) - Cardinality(worker[w].failed)]_vars

\* a batch whose first trace failed and whose second trace was embedded
C23_Witness ==
    \E w \in Workers :
        /\ worker[w].pc = "idle"
        /\ worker[w].kind = "done"
        /\ Len(worker[w].batch) = BATCH_SIZE
        /\ worker[w].failed = {worker[w].batch[1]}
        /\ worker[w].ret = BATCH_SIZE - 1
        /\ embedding[worker[w].batch[1]] = NoEmbedding
        /\ embedding[worker[w].batch[BATCH_SIZE]] # NoEmbedding

\* C24: the value process_batch returns after a skip for want of a
\* credential differs from the value it returns after a batch in which
\* every embed call failed.
C24_SkipDiffersFromFailure ==
    \A w1, w2 \in Workers :
        (/\ worker[w1].pc = "idle" /\ worker[w1].kind = "skipped"
         /\ worker[w2].pc = "idle" /\ worker[w2].kind = "done"
         /\ worker[w2].batch # <<>>
         /\ worker[w2].failed = Range(worker[w2].batch)) =>
            worker[w1].ret # worker[w2].ret

\* the calls that have returned, by their place in wcall.calls
Returned == 1..Len(wcall.results)

\* C25: wilson_score_lower_bound returns exactly 0.0 when total_votes is 0
\* and when upvotes is 0 with any total_votes above 0.
C25_ZeroWithoutUpvotes ==
    \A i \in Returned :
        (wcall.calls[i][2] = 0 \/ wcall.calls[i][1] = 0) => wcall.results[i] = F64Zero

\* C26: every value wilson_score_lower_bound returns lies in [0, 1], and
\* strictly between 0 and 1 when upvotes = total_votes > 0.
C26_WithinUnitInterval ==
    \A i \in Returned :
        /\ F64Le(F64Zero, wcall.results[i])
        /\ F64Le(wcall.results[i], F64Int(1))
        /\ (wcall.calls[i][1] = wcall.calls[i][2] /\ wcall.calls[i][2] > 0)
              => /\ F64Lt(F64Zero, wcall.results[i])
                 /\ F64Lt(wcall.results[i], F64Int(1))

\* C27: at the ratio 10 upvotes in 11 votes the value does not decrease from
\* one sample size to the next, wilson(50, 55) is above wilson(1, 1), and
\* wilson(50, 55) is within 0.05 of 0.82.
C27_MoreVotesMoreConfidence ==
    /\ (Len(wcall.results) = 2 /\ wcall.calls[1] # <<1, 1>>)
          => F64Le(wcall.results[1], wcall.results[2])
    /\ (Len(wcall.results) = 2 /\ wcall.calls[1] = <<1, 1>>)
          => F64Lt(wcall.results[1], wcall.results[2])
    /\ \A i \in Returned :
          wcall.calls[i] = <<50, 55>>
              => F64Lt(F64Abs(F64Sub(wcall.results[i], F64Div(F64Int(82), F64Int(100)))),
                       F64Div(F64Int(5), F64Int(100)))

C27_Witness ==
    /\ wcall.calls = <<<<50, 55>>, <<60, 66>>>>
    /\ Len(wcall.results) = 2
    /\ F64Lt(wcall.results[1], wcall.results[2])

C39_ExpiryNotObservable ==
    (eternal[result.key].n > 0 /\ eternal[result.key].ordered)
        => (result.allowed <=> eternal[result.key].allowed)

\* C36: a partial run does not satisfy the guard: while the latest run
\* record is partial no completed run lies within the interval, and the
\* next invocation is not skipped: it starts a cycle with the whole job
\* list of its tier and nothing written yet, the decay job first.
C36_PartialRunRepeats ==
    /\ []((Len(run_rows) > 0 /\ LastRun.status = "partial") => ~recent)
    /\ [][(/\ cycle.pc = "idle"
           /\ Len(run_rows) > 0
           /\ LastRun.status = "partial"
           /\ cycle' # cycle) =>
             /\ cycle'.pc = "jobs"
             /\ cycle'.ret # "skipped"
             /\ cycle'.jobs = JobsFor(cycle'.tier)
             /\ Head(cycle'.jobs) = "trust_downscaled"
             /\ cycle'.wrote = {}
             /\ cycle'.errors = <<>>]_vars

\* a partial run whose decay was committed is followed by a second run,
\* whose decay was committed too: a trace stored at 4.0 was halved twice
C36_Witness ==
    /\ Len(run_rows) = 2
    /\ run_rows[1].status = "partial"
    /\ ~run_rows[1].stats_json["trust_downscaled"].error
    /\ effects["trust_downscaled"] = 2
    /\ \E t \in Traces :
         trace[t].trust_score = trust_decay(trust_decay(4000 * TrustUnit, 2), 2)

\* C37: in the worker loop every tick runs a full cycle: the guard never
\* finds a run the loop itself completed, on the previous tick or before,
\* so no tick is skipped; and a tick whose cycle raised is followed, like
\* any other, by the next tick one interval after the call ended.
C37_EveryTickRuns ==
    /\ [](loop.outcome # "skipped")
    /\ [][(loop.pc = "tick" /\ loop' # loop) => loop'.pc = "jobs"]_vars
    /\ [][(loop.pc # "sleep" /\ loop'.pc = "sleep" /\ loop'.outcome = "raised") =>
             loop'.returned_at = loop'.now]_vars
    /\ [][(loop.pc = "sleep" /\ loop' # loop) =>
             /\ loop'.pc = "tick"
             /\ loop'.now >= loop.returned_at + loop_interval
             /\ loop'.now <= loop.returned_at + loop_interval + 1]_vars

\* the third tick starts its jobs: the first tick completed a run, the
\* second raised in its jobs
C37_Witness ==
    /\ loop.pc = "jobs"
    /\ loop.ticks = 3
    /\ loop.outcome = "raised"
    /\ loop.completed # {}

\* C35: the temperature job writes a trace only when the temperature
\* derived for it differs from the stored one; a written trace gets the
\* derived temperature and is stale exactly when that is FROZEN; a trace
\* that is not written keeps its temperature and its stale flag.
C35_TemperatureWrites ==
    [][(cons.pc = "temperature" /\ cons'.pc = "prospective") =>
         \A t \in Traces :
            LET before == (cons.otrace @@ trace)[t]
                after == (cons'.otrace @@ trace)[t]
            IN IF t \in cons'.updated
               THEN /\ before.memory_temperature # cons'.new_temp[t]
                    /\ after.memory_temperature = cons'.new_temp[t]
                    /\ after.is_stale <=> (cons'.new_temp[t] = "FROZEN")
               ELSE /\ after.memory_temperature = before.memory_temperature
                    /\ after.is_stale = before.is_stale]_vars

\* the job has returned: it froze a trace that was not stale, and left
\* alone a stale WARM trace whose derived temperature is WARM again
C35_Witness ==
    /\ cons.pc = "prospective"
    /\ "temperature_computation" \in cons.returned
    /\ \E t \in cons.updated :
         /\ ~trace[t].is_stale
         /\ cons.new_temp[t] = "FROZEN"
         /\ cons.otrace[t].is_stale
    /\ \E t \in Traces \ cons.updated :
         /\ trace[t].is_stale
         /\ trace[t].memory_temperature = "WARM"
         /\ cons.new_temp[t] = "WARM"

\* C38: at the end of every cycle in which the prospective job succeeded,
\* every trace whose review date has passed is stale and FROZEN, whatever
\* the temperature job wrote and whatever its stale flag was before.
C38_ReviewPassedFrozen ==
    [][(/\ cons.pc = "commit"
        /\ cons'.pc = "idle"
        /\ "prospective_staled" \in cons.returned) =>
          \A t \in Traces :
             trace'[t].review_passed =>
                 trace'[t].is_stale /\ trace'[t].memory_temperature = "FROZEN"]_vars

\* C34: after any sequence of cycles, two overlapping ones included, every
\* cluster has at most one pattern trace, and a pattern trace is only made
\* for a cluster that has at least five non-flagged episodic traces when
\* it is synthesized.
C34_OnePatternPerCluster ==
    /\ [](\A c \in Clusters : cluster[c].patterns <= 1)
    /\ [][\A p \in Schedulers : \A c \in sched'[p].created \ sched[p].created :
             cluster[c].episodic >= MinClusterSize]_vars

\* C33: when the synthesis collaborator has no credential, the synthesis
\* job stops at its first call for the rest of the cycle: it makes no
\* pattern for that or any remaining cluster, its entry in the stats is its
\* count, not "error", the cycle goes on to its commit, and the run is
\* completed unless another job failed.
C33_SkipStopsSynthesis ==
    /\ [](\A p \in Schedulers :
            sched[p].skip => /\ sched[p].created = {}
                             /\ sched[p].stats = [error |-> FALSE, value |-> 0])
    /\ [][\A p \in Schedulers :
            (sched[p].pc = "synth" /\ sched'[p].stopped) =>
                /\ sched[p].skip
                /\ sched'[p].pc = "commit"
                /\ sched'[p].candidates = <<>>
                /\ sched'[p].created = sched[p].created
                /\ sched'[p].stats = sched[p].stats
                /\ cluster' = cluster]_vars
    /\ [][\A p \in Schedulers :
            (sched[p].pc = "commit" /\ sched[p].stopped /\ sched'[p].pc = "idle"
                                    /\ sched'[p].status # "raised") =>
                /\ cluster' = cluster
                /\ sched'[p].status = IF sched[p].others_failed
                                      THEN "partial" ELSE "completed"]_vars

\* a cycle whose synthesis job stopped has committed a completed run, and
\* two clusters of five traces are still without a pattern trace
C33_Witness ==
    \E p \in Schedulers :
        /\ sched[p].pc = "idle"
        /\ sched[p].stopped
        /\ sched[p].status = "completed"
        /\ Cardinality({c \in Clusters : /\ cluster[c].episodic >= MinClusterSize
                                         /\ cluster[c].patterns = 0}) >= 2

\* C40: with the synthesis available and its calls succeeding, every
\* cluster that stays eligible gets a pattern trace after finitely many
\* mature-tier cycles, also when more clusters are eligible than the
\* per-cycle maximum and when clusters that have a pattern are candidates.
C40_EligibleClusterGetsPattern ==
    \A c \in Clusters :
        [](cluster[c].episodic >= MinClusterSize) => <>(cluster[c].patterns > 0)

====
